---- MODULE Spec2Model ----
(***************************************************************************)
(* The SIM800 command/response engine (src/sim800/core.py): one engine     *)
(* object on a serial transport, the modem behind it, and one caller.      *)
(*                                                                         *)
(* Bytes are integers; text is a sequence of one-character strings.  Every *)
(* byte the modem emits carries, as history information only, whether it   *)
(* answers the latest write (field own); the engine never reads that field.*)
(***************************************************************************)
EXTENDS Integers, Sequences, FiniteSets, TLC

VARIABLES
    pc,              \* position of the caller's thread inside the engine
    op,              \* public operation in progress or last finished
    stage,           \* initialize(): "probe", "ate0" or "cfun"
    self_retries,    \* self.retries
    command,         \* send_command's parameter command
    timeout,         \* send_command's parameter timeout, in clock ticks
    check_error,     \* send_command's parameter check_error
    require_response,\* keyword the caller passed to send_command, or "absent"
    elapsed,         \* ticks_diff(ticks_ms(), start_time) in read_response
    response,        \* read_response's local response
    res,             \* what the last send_command call returned or raised
    attempt,         \* loop variable of the retry / probe loop
    retries,         \* send_command_with_retry's local retries
    last_exception,  \* send_command_with_retry's local last_exception
    outcome,         \* what the public operation returned or raised
    calls,           \* public operations invoked after construction
    rx,              \* the UART receive buffer
    modemOut,        \* bytes the modem has decided to send and not sent yet
    wlog,            \* every uart.write, in order
    nSend,           \* history: send_command calls made by this operation
    nRaise,          \* history: how many of them raised
    nDelay,          \* history: inter-attempt sleeps of this operation
    nDrain,          \* history: completed buffer drains of this operation
    sock,            \* arguments and locals of the socket operation in progress
    conn,            \* history: the socket's state as the replies so far tell
    args,            \* arguments of the SMS, HTTP, FTP, GPRS or clock operation
    step,            \* how many statements of that operation's body are done
    other            \* a second caller's call of send_command: its locals

vars == <<pc, op, stage, self_retries, command, timeout, check_error,
          require_response, elapsed, response, res, attempt, retries,
          last_exception, outcome, calls, rx, modemOut, wlog, nSend, nRaise,
          nDelay, nDrain, sock, conn, args, step, other>>

(***************************************************************************)
(* Bounds of the model.                                                    *)
(***************************************************************************)
\* largest retry count a constructor or a call is given
MaxRetries == 2
\* public operations invoked on one constructed engine
MaxCalls == 1
\* length of the default read window (timeout=1000) in clock ticks
WindowTicks == 1

(***************************************************************************)
(* Text and bytes.                                                         *)
(***************************************************************************)
Chars == {"A", "T", "O", "K", "E", "R", "\r", "?",
          "C", "N", " ", "L", "D", "Y", "F", "I",
          "0", "1", "2", "3", "4", "5", "6", "7", "8", "9",
          "\n", "\"", "+", ",", "-", ".", "/", ":", "G", "M", "P", "S"}

Ord(c) ==
    CASE c = "A" -> 65 [] c = "T" -> 84 [] c = "O" -> 79 [] c = "K" -> 75
      [] c = "E" -> 69 [] c = "R" -> 82 [] c = "\r" -> 13 [] c = "?" -> 63
      [] c = "C" -> 67 [] c = "N" -> 78 [] c = " " -> 32 [] c = "L" -> 76
      [] c = "D" -> 68 [] c = "Y" -> 89 [] c = "F" -> 70 [] c = "I" -> 73
      [] c = "0" -> 48 [] c = "1" -> 49 [] c = "2" -> 50 [] c = "3" -> 51
      [] c = "4" -> 52 [] c = "5" -> 53 [] c = "6" -> 54 [] c = "7" -> 55
      [] c = "8" -> 56 [] c = "9" -> 57 [] c = "\n" -> 10 [] c = "\"" -> 34
      [] c = "+" -> 43 [] c = "," -> 44 [] c = "-" -> 45 [] c = "." -> 46
      [] c = "/" -> 47 [] c = ":" -> 58 [] c = "G" -> 71 [] c = "M" -> 77
      [] c = "P" -> 80 [] c = "S" -> 83

Chr(b) == CHOOSE c \in Chars : Ord(c) = b

\* the byte 0xFF, which no UTF-8 encoding contains
BadByte == 16 * 16 - 1

Encode(s) == [i \in 1..Len(s) |-> Ord(s[i])]

OK_ == <<"O", "K">>
AT_ == <<"A", "T">>
ERROR_ == <<"E", "R", "R", "O", "R">>
CONNECT_ == <<"C", "O", "N", "N", "E", "C", "T">>
CONNECT_OK == CONNECT_ \o <<" ", "O", "K">>
ALREADY_CONNECT == <<"A", "L", "R", "E", "A", "D", "Y", " ">> \o CONNECT_
CONNECT_FAIL == CONNECT_ \o <<" ", "F", "A", "I", "L">>
CCLK_ == <<"+", "C", "C", "L", "K", ":">>
CIPGSMLOC_ == <<"+", "C", "I", "P", "G", "S", "M", "L", "O", "C", ":">>

Contains(s, t) ==
    \E i \in 0..(Len(s) - Len(t)) : SubSeq(s, i + 1, i + Len(t)) = t

Whitespace == {" ", "\t", "\n", "\r"}

RECURSIVE LStrip(_)
LStrip(s) ==
    IF s # <<>> /\ Head(s) \in Whitespace THEN LStrip(Tail(s)) ELSE s

RECURSIVE RStrip(_)
RStrip(s) ==
    IF s # <<>> /\ s[Len(s)] \in Whitespace
    THEN RStrip(SubSeq(s, 1, Len(s) - 1)) ELSE s

\* str.strip()
Strip(s) == RStrip(LStrip(s))

\* ''.join(s): the Python string of a text
RECURSIVE Join(_)
Join(s) == IF s = <<>> THEN "" ELSE Head(s) \o Join(Tail(s))

Digit(d) ==
    CASE d = 0 -> "0" [] d = 1 -> "1" [] d = 2 -> "2" [] d = 3 -> "3"
      [] d = 4 -> "4" [] d = 5 -> "5" [] d = 6 -> "6" [] d = 7 -> "7"
      [] d = 8 -> "8" [] d = 9 -> "9"

\* '{}'.format(n) for an int n
RECURSIVE Decimal(_)
Decimal(n) ==
    IF n < 0 THEN "-" \o Decimal(0 - n)
    ELSE IF n < 10 THEN Digit(n)
    ELSE Decimal(n \div 10) \o Digit(n % 10)

\* the bytes of a receive buffer, without the history field
Raw(tagged) == [i \in 1..Len(tagged) |-> tagged[i].b]

Tag(bytes) == [i \in 1..Len(bytes) |-> [b |-> bytes[i], own |-> TRUE]]

\* bytes that answered an earlier write, once a new line is written
Stale(tagged) == [i \in 1..Len(tagged) |-> [b |-> tagged[i].b, own |-> FALSE]]

\* every byte is an ASCII character
Ascii(bytes) == \A i \in 1..Len(bytes) : bytes[i] < 128

\* a byte that continues a multi-byte character
Continuation(b) == b \in 128..191

\* how many bytes the well-formed UTF-8 character at the head of bytes takes,
\* 0 when there is none (a stray continuation byte, an overlong or truncated
\* form, a surrogate, a byte that no encoding contains)
Utf8Length(bytes) ==
    LET b == bytes[1]
        n == Len(bytes)
    IN  IF b < 128 THEN 1
        ELSE IF b \in 194..223 /\ n >= 2 /\ Continuation(bytes[2]) THEN 2
        ELSE IF b \in 224..239 /\ n >= 3
                /\ bytes[2] \in (IF b = 224 THEN 160..191
                                  ELSE IF b = 237 THEN 128..159
                                  ELSE 128..191)
                /\ Continuation(bytes[3]) THEN 3
        ELSE IF b \in 240..244 /\ n >= 4
                /\ bytes[2] \in (IF b = 240 THEN 144..191
                                  ELSE IF b = 244 THEN 128..143
                                  ELSE 128..191)
                /\ Continuation(bytes[3]) /\ Continuation(bytes[4]) THEN 4
        ELSE 0

\* the code point of the character of k bytes at the head of bytes
CodePoint(bytes, k) ==
    CASE k = 1 -> bytes[1]
      [] k = 2 -> (bytes[1] - 192) * 64 + (bytes[2] - 128)
      [] k = 3 -> (bytes[1] - 224) * 4096 + (bytes[2] - 128) * 64
                     + (bytes[3] - 128)
      [] k = 4 -> (bytes[1] - 240) * 262144 + (bytes[2] - 128) * 4096
                     + (bytes[3] - 128) * 64 + (bytes[4] - 128)

\* chr(cp): the characters outside ASCII are written U+<code point>
Char(cp) == IF cp < 128 THEN Chr(cp) ELSE "U+" \o Decimal(cp)

\* bytes.decode('utf-8') raises no UnicodeDecodeError
RECURSIVE Utf8Valid(_)
Utf8Valid(bytes) ==
    \/ bytes = <<>>
    \/ /\ Utf8Length(bytes) > 0
       /\ Utf8Valid(SubSeq(bytes, Utf8Length(bytes) + 1, Len(bytes)))

ValidUtf8(bytes) == Ascii(bytes) \/ Utf8Valid(bytes)

\* bytes.decode('utf-8') for bytes that are valid UTF-8
RECURSIVE utf8_decode(_)
utf8_decode(bytes) ==
    IF Ascii(bytes) THEN [i \in 1..Len(bytes) |-> Chr(bytes[i])]
    ELSE <<Char(CodePoint(bytes, Utf8Length(bytes)))>>
            \o utf8_decode(SubSeq(bytes, Utf8Length(bytes) + 1, Len(bytes)))

\* a fallback that leaves the undecodable bytes out
_decode_response_ignore(bytes) ==
    IF ValidUtf8(bytes)
    THEN utf8_decode(bytes)
    ELSE LET kept == SelectSeq(bytes, LAMBDA b : b < 128)
         IN  [i \in 1..Len(kept) |-> Chr(kept[i])]

\* _decode_response for a response that is bytes
_decode_response(bytes) ==
    IF ValidUtf8(bytes)
    THEN utf8_decode(bytes)
    ELSE [i \in 1..Len(bytes) |-> IF bytes[i] < 128 THEN Chr(bytes[i]) ELSE "?"]

\* self._decode_response(response), for bytes and for a response that is
\* already a str
decode(r) ==
    IF r.type = "bytes" THEN _decode_response(r.v) ELSE r.v

\* no SMS, HTTP, FTP, GPRS or clock operation has been invoked
NoArgs == [operation |-> "none"]

\* the socket operations' arguments and locals while none has been invoked
NoSocket ==
    [mode |-> "", ip |-> <<>>, port |-> 0, retry |-> FALSE, attempts |-> 0,
     data |-> [type |-> "bytes", v |-> <<>>], data_bytes |-> <<>>,
     max_length |-> 0]

(***************************************************************************)
(* Results: a returned value or a raised exception.                        *)
(***************************************************************************)
Ret(v) == [kind |-> "return", command |-> "", response |-> <<>>, value |-> v]

Exc(k, c, text) == [kind |-> k, command |-> c, response |-> text, value |-> <<>>]

NoResult == [kind |-> "none", command |-> "", response |-> <<>>, value |-> <<>>]

\* no second caller has called
NoCaller ==
    [pc |-> "idle", calls |-> 0, command |-> "", timeout |-> 0, elapsed |-> 0,
     response |-> <<>>, res |-> NoResult]

SIM800CommandError(c, text) == Exc("SIM800CommandError", c, text)

SIM800TimeoutError(c, t) ==
    [kind |-> "SIM800TimeoutError", command |-> c, timeout_ms |-> t]

\* str(e) of a SIM800CommandError
CommandErrorMessage(e) ==
    "Command '" \o e.command \o "' failed"
       \o (IF e.response # <<>> THEN ": " \o Join(e.response) ELSE "")

SIM800ConnectionError(message, ip, port) ==
    [kind |-> "SIM800ConnectionError", command |-> "", response |-> <<>>,
     value |-> <<>>, message |-> message, ip |-> ip, port |-> port]

ValueError == Exc("ValueError", "", <<>>)

\* "Initialization failed: {}".format(e): the message quotes e
SIM800InitializationError(c, text) == Exc("SIM800InitializationError", c, text)

(***************************************************************************)
(* The modem and the transport.                                            *)
(***************************************************************************)
\* what the modem may answer to one command line: bursts of bytes
Replies ==
    { <<>>,
      <<Encode(OK_)>>,
      <<Encode(AT_)>>,
      <<Encode(<<"E", "R", "R">>), Encode(<<"O", "R">>), Encode(<<"\r">>)>>,
      <<<<BadByte>> \o Encode(ERROR_)>> }

\* arguments callers pass to the socket operations
Modes == {"TCP", "UDP", "tcp", "SCTP"}
Hosts == {<<>>, <<" ">>, <<"h">>}
Ports == {0, 1, 65535, 65536}

\* an open command with the port left unquoted
CIPSTART_bare_port(mode, ip, port) ==
    "AT+CIPSTART=\"" \o mode \o "\",\"" \o Join(ip) \o "\","
       \o Decimal(port)

\* 'AT+CIPSTART="{}","{}","{}"'.format(mode, ip, port)
CIPSTART(mode, ip, port) ==
    "AT+CIPSTART=\"" \o mode \o "\",\"" \o Join(ip) \o "\",\""
       \o Decimal(port) \o "\""

OpenCommands ==
    {CIPSTART(md, h, p) : md \in {"TCP", "UDP"}, h \in Hosts, p \in Ports}

\* what the modem may answer to AT+CIPSTART
OpenReplies ==
    { <<>>,
      <<Encode(OK_ \o <<"\r">>), Encode(CONNECT_OK)>>,
      <<Encode(ALREADY_CONNECT)>>,
      <<Encode(CONNECT_FAIL)>>,
      <<Encode(ERROR_)>> }

\* the clock values the network may report
ClockDates == {<<24, 12, 8>>, <<25, 6, 15>>, <<23, 1, 1>>}
ClockTimes == {<<14, 30, 45>>, <<9, 15, 30>>, <<0, 0, 0>>}
ClockZones == {<<"+", "0", "4">>, <<"-", "0", "8">>, <<>>}

\* a number as the modem prints it, in two digits
TwoDigits(n) == <<Digit(n \div 10), Digit(n % 10)>>

\* three numbers as the modem prints them around a separator
Triple(t, sep) ==
    TwoDigits(t[1]) \o <<sep>> \o TwoDigits(t[2]) \o <<sep>> \o TwoDigits(t[3])

\* date and time segments of replies, the well-formed ones and others
DateTexts ==
    {Triple(d, "/") : d \in ClockDates}
       \cup { <<"2", "4", "/", "1", "2">>,
              <<"2", "4", "/", "1", "2", "/", "0", "8", "/", "0", "1">>,
              <<"2", "N", "/", "1", "2", "/", "0", "8">>,
              <<" ", "2", "4", "/", "+", "1", "2", "/", "0", "8">> }

TimeTexts ==
    {Triple(t, ":") : t \in ClockTimes}
       \cup { <<"1", "4", ":", "3", "0">>,
              <<"1", "4", ":", "3", "0", ":", "4", "5", ":", "0", "0">>,
              <<"1", "4", ":", "N", "0", ":", "4", "5">>,
              <<"-", "4", ":", "3", "0", ":", "4", "5">>,
              <<"+", "4", ":", "3", "0", ":", "4", "5">>,
              <<" ", "-", "4", ":", "3", "0", ":", "4", "5">>,
              <<"1", "-", ":", "3", "0", ":", "4", "5">> }

ZoneTexts ==
    ClockZones
       \cup { <<"+", "0", "4", "+", "0", "1">>,
              <<"-", "0", "8", "-", "0", "1">>,
              <<"+", "N">> }

\* how the payload stands in the reply: quoted, a quote or the comma missing
Frames == {"quoted", "unclosed", "unopened", "bare", "nocomma"}

ClockReply(frame, date, time, zone) ==
    CCLK_ \o <<" ">>
       \o (IF frame \in {"quoted", "unclosed", "nocomma"} THEN <<"\"">> ELSE <<>>)
       \o date \o (IF frame = "nocomma" THEN <<>> ELSE <<",">>) \o time \o zone
       \o (IF frame \in {"quoted", "unopened", "nocomma"} THEN <<"\"">> ELSE <<>>)
       \o <<"\r", "\n", "\r", "\n", "O", "K", "\r", "\n">>

\* what the modem may answer to AT+CCLK?
ClockReplies ==
    { <<>>,
      <<Encode(ERROR_ \o <<"\r", "\n">>)>>,
      <<Encode(OK_ \o <<"\r", "\n">>)>>,
      <<Encode(CCLK_ \o <<" ", "\"", "N", "O", "\"", "\r", "\n">>)>> }
       \cup { <<Encode(ClockReply(f, d, t, z))>> :
                f \in Frames, d \in DateTexts, t \in TimeTexts, z \in ZoneTexts }

\* the fields the location service may report after the status
Longitudes ==
    { <<"-", "1", "2", "2", ".", "4", "1", "9", "4">>,
      <<"1", "5", "1", ".", "2", "0", "9", "3">>, <<"N", "O">>, <<>> }
Latitudes ==
    { <<"3", "7", ".", "7", "7", "4", "9">>,
      <<" ", "-", "3", "3", ".", "8", "6", "8", "8">>, <<"N", "O">> }
LocationDates == { <<"2", "0", "2", "4", "/", "1", "2", "/", "0", "8">>, <<>> }
LocationTimes ==
    { <<"1", "4", ":", "3", "0", ":", "0", "0">>,
      <<"1", "0", ":", "0", "0", ":", "0", "0", ",", "9">> }
Statuses == { <<"0">>, <<"6", "0", "1">>, <<"4", "0", "4">> }

\* +CIPGSMLOC: <status>,<lon>,<lat>,<date>,<time> and the final result line
LocationReply(fields) ==
    CIPGSMLOC_ \o <<" ">> \o fields
       \o <<"\r", "\n", "\r", "\n", "O", "K", "\r", "\n">>

\* what the modem may answer to AT+CIPGSMLOC=1,1
LocationReplies ==
    { <<>>,
      <<Encode(ERROR_ \o <<"\r", "\n">>)>>,
      <<Encode(OK_ \o <<"\r", "\n">>)>> }
       \cup { <<Encode(LocationReply(s))>> : s \in Statuses }
       \cup { <<Encode(LocationReply(s \o <<",">> \o lon))>> :
                s \in Statuses, lon \in Longitudes }
       \cup { <<Encode(LocationReply(s \o <<",">> \o lon \o <<",">> \o lat
                                        \o <<",">> \o d \o <<",">> \o t))>> :
                s \in Statuses, lon \in Longitudes, lat \in Latitudes,
                d \in LocationDates, t \in LocationTimes }

RepliesTo(c) ==
    IF c \in OpenCommands THEN OpenReplies
    ELSE IF c = "AT+CCLK?" THEN ClockReplies
    ELSE IF c = "AT+CIPGSMLOC=1,1" THEN LocationReplies
    ELSE Replies

\* the SMS, HTTP, FTP, dial and APN operations
Methods ==
    {"set_sms_format", "send_sms", "read_sms", "delete_sms", "read_all_sms",
     "delete_all_sms", "http_init", "http_set_param", "http_get", "http_post",
     "http_terminate", "ftp_init", "ftp_get_file", "ftp_put_file", "ftp_close",
     "dial_number", "set_apn"}

\* what the modem answers to a statement of one of these operations: nothing,
\* or a whole OK or ERROR
Answers == { <<>>, <<Encode(OK_)>>, <<Encode(ERROR_)>> }

\* what the modem may answer to the line being written
Answering == IF op \in Methods THEN Answers ELSE RepliesTo(command)

TagAll(chunks) == [i \in 1..Len(chunks) |-> Tag(chunks[i])]

StaleAll(chunks) == [i \in 1..Len(chunks) |-> Stale(chunks[i])]

engine == <<pc, op, stage, self_retries, command, timeout, check_error,
            require_response, elapsed, response, res, attempt, retries,
            last_exception, outcome, calls, wlog, nSend, nRaise, nDelay,
            nDrain, sock, conn, args, step, other>>

\* the modem's next burst reaches the UART receive buffer
Emit ==
    /\ modemOut # <<>>
    /\ rx' = rx \o Head(modemOut)
    /\ modemOut' = Tail(modemOut)
    /\ UNCHANGED engine

(***************************************************************************)
(* send_command and read_response.                                         *)
(***************************************************************************)
\* command + '\r'
Line(c) == <<c, "\r">>

\* send_command without the check_error test
send_command_result_unchecked(c, ce, resp) ==
    IF resp # <<>> /\ Contains(_decode_response(Raw(resp)), ERROR_)
    THEN SIM800CommandError(c, Strip(_decode_response(Raw(resp))))
    ELSE Ret(resp)

\* send_command, lines 54-59: the classification of the accumulated response
send_command_result(c, ce, resp) ==
    IF ce /\ resp # <<>> /\ Contains(_decode_response(Raw(resp)), ERROR_)
    THEN SIM800CommandError(c, Strip(_decode_response(Raw(resp))))
    ELSE Ret(resp)

\* enter send_command(c, t, ce) from a caller
Call(c, t, ce) ==
    /\ command' = c
    /\ timeout' = t
    /\ check_error' = ce
    /\ pc' = "write"

Raised(r) == IF r.kind = "return" THEN 0 ELSE 1

\* self.uart.write(command + '\r'), sleep_ms(100), and read_response's first
\* two lines; the modem takes the line and picks its answer
uart_write ==
    /\ pc = "write"
    /\ wlog' = Append(wlog, Line(command))
    /\ \E rep \in Answering :
          modemOut' = StaleAll(modemOut) \o TagAll(rep)
    /\ rx' = Stale(rx)
    /\ elapsed' = 0
    /\ response' = <<>>
    /\ pc' = "read"
    /\ UNCHANGED <<op, stage, self_retries, command, timeout, check_error,
                   require_response, res, attempt, retries, last_exception,
                   outcome, calls, nSend, nRaise, nDelay, nDrain>>
    /\ UNCHANGED <<sock, conn, args, step, other>>

\* self.uart.write raises (the transport fails): send_command lets it through
uart_write_fails ==
    /\ pc = "write"
    /\ res' = Exc("OSError", command, <<>>)
    /\ nRaise' = nRaise + 1
    /\ pc' = "ret"
    /\ UNCHANGED <<op, stage, self_retries, command, timeout, check_error,
                   require_response, elapsed, response, attempt, retries,
                   last_exception, outcome, calls, rx, modemOut, wlog, nSend,
                   nDelay, nDrain>>
    /\ UNCHANGED <<sock, conn, args, step, other>>

\* a read_response that does not wait
window_open_never(e, t) == FALSE

\* the loop condition of read_response
window_open(e, t) == e < t

\* self.uart.any()
uart_any(buf) == Len(buf)

\* a polling loop that keeps only the chunk read last
read_response_poll_overwrites ==
    /\ pc = "read"
    /\ window_open(elapsed, timeout)
    /\ uart_any(rx) # 0
    /\ response' = rx
    /\ rx' = <<>>
    /\ UNCHANGED <<pc, op, stage, self_retries, command, timeout, check_error,
                   require_response, elapsed, res, attempt, retries,
                   last_exception, outcome, calls, modemOut, wlog, nSend,
                   nRaise, nDelay, nDrain>>
    /\ UNCHANGED <<sock, conn, args, step, other>>

\* one pass of the polling loop that finds bytes
read_response_poll ==
    /\ pc = "read"
    /\ window_open(elapsed, timeout)
    /\ uart_any(rx) # 0
    /\ response' = response \o rx
    /\ rx' = <<>>
    /\ UNCHANGED <<pc, op, stage, self_retries, command, timeout, check_error,
                   require_response, elapsed, res, attempt, retries,
                   last_exception, outcome, calls, modemOut, wlog, nSend,
                   nRaise, nDelay, nDrain>>
    /\ UNCHANGED <<sock, conn, args, step, other>>

\* the clock advances while read_response polls
clock_tick ==
    /\ pc = "read"
    /\ elapsed < timeout
    /\ elapsed' = elapsed + 1
    /\ UNCHANGED <<pc, op, stage, self_retries, command, timeout, check_error,
                   require_response, response, res, attempt, retries,
                   last_exception, outcome, calls, rx, modemOut, wlog, nSend,
                   nRaise, nDelay, nDrain>>
    /\ UNCHANGED <<sock, conn, args, step, other>>

\* a send_command that returns whatever has come in so far
send_command_return_early ==
    /\ pc = "read"
    /\ res' = send_command_result(command, check_error, response)
    /\ nRaise' = nRaise + Raised(res')
    /\ pc' = "ret"
    /\ UNCHANGED <<op, stage, self_retries, command, timeout, check_error,
                   require_response, elapsed, response, attempt, retries,
                   last_exception, outcome, calls, rx, modemOut, wlog, nSend,
                   nDelay, nDrain>>
    /\ UNCHANGED <<sock, conn, args, step, other>>

\* the loop condition fails: read_response returns and send_command classifies
send_command_return ==
    /\ pc = "read"
    /\ ~window_open(elapsed, timeout)
    /\ res' = send_command_result(command, check_error, response)
    /\ nRaise' = nRaise + Raised(res')
    /\ pc' = "ret"
    /\ UNCHANGED <<op, stage, self_retries, command, timeout, check_error,
                   require_response, elapsed, response, attempt, retries,
                   last_exception, outcome, calls, rx, modemOut, wlog, nSend,
                   nDelay, nDrain>>
    /\ UNCHANGED <<sock, conn, args, step, other>>

(***************************************************************************)
(* __init__ and initialize.                                                *)
(***************************************************************************)
\* before SIM800(...) is called
InitNew ==
    /\ pc = "new"
    /\ op = "none"
    /\ stage = "none"
    /\ self_retries = 0
    /\ command = ""
    /\ timeout = 0
    /\ check_error = FALSE
    /\ require_response = "absent"
    /\ elapsed = 0
    /\ response = <<>>
    /\ res = NoResult
    /\ attempt = 0
    /\ retries = 0
    /\ last_exception = NoResult
    /\ outcome = NoResult
    /\ calls = 0
    /\ rx = <<>>
    /\ modemOut = <<>>
    /\ wlog = <<>>
    /\ nSend = 0
    /\ nRaise = 0
    /\ nDelay = 0
    /\ nDrain = 0
    /\ sock = NoSocket
    /\ conn = "Idle"
    /\ args = NoArgs
    /\ step = 0
    /\ other = NoCaller

\* a probe that does not accept the echo
probe_ok_no_echo(text) == Contains(text, OK_)

\* the probe's success test
probe_ok(text) == Contains(text, OK_) \/ Contains(text, AT_)

\* the probe loop runs range(self.retries + 1): is there another pass?
probe_again(a, r) == a < r

\* an __init__ that returns without calling initialize()
construct_skips_initialize ==
    /\ pc = "new"
    /\ \E r \in 0..MaxRetries : self_retries' = r
    /\ op' = "initialize"
    /\ outcome' = Ret(<<>>)
    /\ pc' = "idle"
    /\ UNCHANGED <<stage, command, timeout, check_error, require_response,
                   elapsed, response, res, attempt, retries, last_exception,
                   calls, rx, modemOut, wlog, nSend, nRaise, nDelay, nDrain>>
    /\ UNCHANGED <<sock, conn, args, step, other>>

\* SIM800(uart_pin, retries=r): __init__ up to the first probe of initialize()
construct ==
    /\ pc = "new"
    /\ \E r \in 0..MaxRetries : self_retries' = r
    /\ op' = "initialize"
    /\ stage' = "probe"
    /\ attempt' = 0
    /\ nSend' = 1
    /\ Call("AT", WindowTicks, FALSE)
    /\ UNCHANGED <<require_response, elapsed, response, res, retries,
                   last_exception, outcome, calls, rx, modemOut, wlog, nRaise,
                   nDelay, nDrain>>
    /\ UNCHANGED <<sock, conn, args, step, other>>

\* machine.UART(...) raises: __init__ turns it into SIM800InitializationError
construct_uart_fails ==
    /\ pc = "new"
    /\ op' = "initialize"
    /\ outcome' = SIM800InitializationError("", <<>>)
    /\ pc' = "dead"
    /\ UNCHANGED <<stage, self_retries, command, timeout, check_error,
                   require_response, elapsed, response, res, attempt, retries,
                   last_exception, calls, rx, modemOut, wlog, nSend, nRaise,
                   nDelay, nDrain>>
    /\ UNCHANGED <<sock, conn, args, step, other>>

\* the probe's response holds OK or AT: break, then send_command('ATE0')
initialize_probe_ok ==
    /\ pc = "ret" /\ op = "initialize" /\ stage = "probe"
    /\ res.kind = "return"
    /\ probe_ok(_decode_response(Raw(res.value)))
    /\ stage' = "ate0"
    /\ nSend' = nSend + 1
    /\ Call("ATE0", WindowTicks, TRUE)
    /\ UNCHANGED <<op, self_retries, require_response, elapsed, response, res,
                   attempt, retries, last_exception, outcome, calls, rx,
                   modemOut, wlog, nRaise, nDelay, nDrain>>
    /\ UNCHANGED <<sock, conn, args, step, other>>

\* the probe failed and passes remain: sleep_ms(retry_delay_ms), probe again
initialize_probe_retry ==
    /\ pc = "ret" /\ op = "initialize" /\ stage = "probe"
    /\ res.kind = "return"
    /\ ~probe_ok(_decode_response(Raw(res.value)))
    /\ probe_again(attempt, self_retries)
    /\ nDelay' = nDelay + 1
    /\ attempt' = attempt + 1
    /\ nSend' = nSend + 1
    /\ Call("AT", WindowTicks, FALSE)
    /\ UNCHANGED <<op, stage, self_retries, require_response, elapsed,
                   response, res, retries, last_exception, outcome, calls, rx,
                   modemOut, wlog, nRaise, nDrain>>
    /\ UNCHANGED <<sock, conn, args, step, other>>

\* the probe loop ends without break: the for's else clause raises
initialize_probe_exhausted ==
    /\ pc = "ret" /\ op = "initialize" /\ stage = "probe"
    /\ res.kind = "return"
    /\ ~probe_ok(_decode_response(Raw(res.value)))
    /\ ~probe_again(attempt, self_retries)
    /\ outcome' = SIM800InitializationError("", <<>>)
    /\ pc' = "dead"
    /\ UNCHANGED <<op, stage, self_retries, command, timeout, check_error,
                   require_response, elapsed, response, res, attempt, retries,
                   last_exception, calls, rx, modemOut, wlog, nSend, nRaise,
                   nDelay, nDrain>>
    /\ UNCHANGED <<sock, conn, args, step, other>>

\* ATE0 returned: send_command('AT+CFUN=1')
initialize_ate0_ok ==
    /\ pc = "ret" /\ op = "initialize" /\ stage = "ate0"
    /\ res.kind = "return"
    /\ stage' = "cfun"
    /\ nSend' = nSend + 1
    /\ Call("AT+CFUN=1", WindowTicks, TRUE)
    /\ UNCHANGED <<op, self_retries, require_response, elapsed, response, res,
                   attempt, retries, last_exception, outcome, calls, rx,
                   modemOut, wlog, nRaise, nDelay, nDrain>>
    /\ UNCHANGED <<sock, conn, args, step, other>>

\* AT+CFUN=1 returned: initialize() and __init__ return, the engine is usable
initialize_done ==
    /\ pc = "ret" /\ op = "initialize" /\ stage = "cfun"
    /\ res.kind = "return"
    /\ outcome' = Ret(<<>>)
    /\ pc' = "idle"
    /\ UNCHANGED <<op, stage, self_retries, command, timeout, check_error,
                   require_response, elapsed, response, res, attempt, retries,
                   last_exception, calls, rx, modemOut, wlog, nSend, nRaise,
                   nDelay, nDrain>>
    /\ UNCHANGED <<sock, conn, args, step, other>>

\* an initialize() without its except clause
initialize_raises_unwrapped(e) == e

\* what initialize() raises when a send_command of it raised e
initialize_raises(e) ==
    IF e.kind = "SIM800CommandError"
    THEN SIM800InitializationError(e.command, e.response)
    ELSE e

\* a send_command of initialize() raised: construction fails
initialize_error ==
    /\ pc = "ret" /\ op = "initialize"
    /\ res.kind # "return"
    /\ outcome' = initialize_raises(res)
    /\ pc' = "dead"
    /\ UNCHANGED <<op, stage, self_retries, command, timeout, check_error,
                   require_response, elapsed, response, res, attempt, retries,
                   last_exception, calls, rx, modemOut, wlog, nSend, nRaise,
                   nDelay, nDrain>>
    /\ UNCHANGED <<sock, conn, args, step, other>>

\* construction, from SIM800(...) to a usable engine or a raised exception
NextInit ==
    \/ construct
    \/ construct_uart_fails
    \/ uart_write
    \/ uart_write_fails
    \/ read_response_poll
    \/ clock_tick
    \/ send_command_return
    \/ initialize_probe_ok
    \/ initialize_probe_retry
    \/ initialize_probe_exhausted
    \/ initialize_ate0_ok
    \/ initialize_done
    \/ initialize_error
    \/ Emit

SpecInit == InitNew /\ [][NextInit]_vars

(***************************************************************************)
(* A constructed engine and its caller.                                    *)
(***************************************************************************)
\* the engine as __init__ leaves it when the first probe and both
\* configuration commands were answered OK in time
Init ==
    /\ pc = "idle"
    /\ op = "initialize"
    /\ stage = "cfun"
    /\ self_retries \in 0..MaxRetries
    /\ command = "AT+CFUN=1"
    /\ timeout = WindowTicks
    /\ check_error = TRUE
    /\ require_response = "absent"
    /\ elapsed = WindowTicks
    /\ response = Tag(Encode(OK_))
    /\ res = Ret(Tag(Encode(OK_)))
    /\ attempt = 0
    /\ retries = 0
    /\ last_exception = NoResult
    /\ outcome = Ret(<<>>)
    /\ calls = 0
    /\ rx = <<>>
    /\ modemOut = <<>>
    /\ wlog = <<Line("AT"), Line("ATE0"), Line("AT+CFUN=1")>>
    /\ nSend = 3
    /\ nRaise = 0
    /\ nDelay = 0
    /\ nDrain = 0
    /\ sock = NoSocket
    /\ conn = "Idle"
    /\ args = NoArgs
    /\ step = 0
    /\ other = NoCaller

\* the command a caller passes
UserCommand == "AT+CSQ"

\* sim.send_command(c, check_error=ce)
call_send_command ==
    /\ pc = "idle" /\ calls < MaxCalls
    /\ calls' = calls + 1
    /\ op' = "send_command"
    /\ require_response' = "absent"
    /\ nSend' = 1 /\ nRaise' = 0 /\ nDelay' = 0 /\ nDrain' = 0
    /\ attempt' = 0 /\ retries' = 0
    /\ res' = NoResult /\ last_exception' = NoResult /\ outcome' = NoResult
    /\ \E ce \in BOOLEAN : Call(UserCommand, WindowTicks, ce)
    /\ UNCHANGED <<stage, self_retries, elapsed, response, rx, modemOut, wlog>>
    /\ UNCHANGED <<sock, conn, args, step, other>>

\* sim.send_command(c, timeout=..., require_response=rr): the signature
\* (command, timeout, check_error) has no such parameter, the call raises
call_send_command_require_response ==
    /\ pc = "idle" /\ calls < MaxCalls
    /\ calls' = calls + 1
    /\ op' = "send_command"
    /\ \E rr \in {"True", "False"} : require_response' = rr
    /\ nSend' = 0 /\ nRaise' = 0 /\ nDelay' = 0 /\ nDrain' = 0
    /\ attempt' = 0 /\ retries' = 0
    /\ command' = UserCommand
    /\ timeout' = WindowTicks
    /\ check_error' = TRUE
    /\ response' = <<>>
    /\ res' = NoResult /\ last_exception' = NoResult
    /\ outcome' = Exc("TypeError", UserCommand, <<>>)
    /\ UNCHANGED <<pc, stage, self_retries, elapsed, rx, modemOut, wlog>>
    /\ UNCHANGED <<sock, conn, args, step, other>>

\* send_command returned or raised: so does the call
send_command_done ==
    /\ pc = "ret" /\ op = "send_command"
    /\ outcome' = res
    /\ pc' = "idle"
    /\ UNCHANGED <<op, stage, self_retries, command, timeout, check_error,
                   require_response, elapsed, response, res, attempt, retries,
                   last_exception, calls, rx, modemOut, wlog, nSend, nRaise,
                   nDelay, nDrain>>
    /\ UNCHANGED <<sock, conn, args, step, other>>

(***************************************************************************)
(* send_command_with_retry and _clear_uart_buffer.                         *)
(***************************************************************************)
\* except Exception
retryable_any(e) == e.kind # "return"

\* except (SIM800CommandError, SIM800TimeoutError)
retryable(e) == e.kind \in {"SIM800CommandError", "SIM800TimeoutError"}

\* if attempt <= retries
retry_again_once_more(a, r) == a <= r

\* if attempt < retries
retry_again(a, r) == a < r

\* if last_exception is None: last_exception = e
keep_exception_first(last, e) == IF last.kind = "none" THEN e ELSE last

\* last_exception = e
keep_exception(last, e) == e

\* sim.send_command_with_retry(c, check_error=ce, retries=r or None)
call_send_command_with_retry ==
    /\ pc = "idle" /\ calls < MaxCalls
    /\ calls' = calls + 1
    /\ op' = "send_command_with_retry"
    /\ require_response' = "absent"
    /\ nSend' = 1 /\ nRaise' = 0 /\ nDelay' = 0 /\ nDrain' = 0
    /\ \E none \in BOOLEAN, r \in 0..MaxRetries :
          retries' = IF none THEN self_retries ELSE r
    /\ attempt' = 0
    /\ res' = NoResult /\ last_exception' = NoResult /\ outcome' = NoResult
    /\ \E ce \in BOOLEAN : Call(UserCommand, WindowTicks, ce)
    /\ UNCHANGED <<stage, self_retries, elapsed, response, rx, modemOut, wlog>>
    /\ UNCHANGED <<sock, conn, args, step, other>>

\* return self.send_command(...)
retry_return ==
    /\ pc = "ret" /\ op = "send_command_with_retry"
    /\ res.kind = "return"
    /\ outcome' = res
    /\ pc' = "idle"
    /\ UNCHANGED <<op, stage, self_retries, command, timeout, check_error,
                   require_response, elapsed, response, res, attempt, retries,
                   last_exception, calls, rx, modemOut, wlog, nSend, nRaise,
                   nDelay, nDrain>>
    /\ UNCHANGED <<sock, conn, args, step, other>>

\* a retry loop that drains without sleeping first
retry_delay_without_sleep ==
    /\ pc = "ret" /\ op = "send_command_with_retry"
    /\ retryable(res)
    /\ retry_again(attempt, retries)
    /\ last_exception' = keep_exception(last_exception, res)
    /\ pc' = "drain"
    /\ UNCHANGED <<op, stage, self_retries, command, timeout, check_error,
                   require_response, elapsed, response, res, attempt, retries,
                   outcome, calls, rx, modemOut, wlog, nSend, nRaise, nDelay,
                   nDrain>>
    /\ UNCHANGED <<sock, conn, args, step, other>>

\* a retryable failure with attempts left: sleep_ms(retry_delay_ms), then drain
retry_delay ==
    /\ pc = "ret" /\ op = "send_command_with_retry"
    /\ retryable(res)
    /\ retry_again(attempt, retries)
    /\ last_exception' = keep_exception(last_exception, res)
    /\ nDelay' = nDelay + 1
    /\ pc' = "drain"
    /\ UNCHANGED <<op, stage, self_retries, command, timeout, check_error,
                   require_response, elapsed, response, res, attempt, retries,
                   outcome, calls, rx, modemOut, wlog, nSend, nRaise, nDrain>>
    /\ UNCHANGED <<sock, conn, args, step, other>>

\* a drain that reads once and returns: if self.uart.any(): self.uart.read()
_clear_uart_buffer_read_once ==
    /\ pc = "drain"
    /\ uart_any(rx) # 0
    /\ rx' = <<>>
    /\ nDrain' = nDrain + 1
    /\ attempt' = attempt + 1
    /\ nSend' = nSend + 1
    /\ pc' = "write"
    /\ UNCHANGED <<op, stage, self_retries, command, timeout, check_error,
                   require_response, elapsed, response, res, retries,
                   last_exception, outcome, calls, modemOut, wlog, nRaise,
                   nDelay>>
    /\ UNCHANGED <<sock, conn, args, step, other>>

\* _clear_uart_buffer: uart.any() is non-zero, uart.read() takes what is there
_clear_uart_buffer_read ==
    /\ pc = "drain"
    /\ uart_any(rx) # 0
    /\ rx' = <<>>
    /\ UNCHANGED <<pc, op, stage, self_retries, command, timeout, check_error,
                   require_response, elapsed, response, res, attempt, retries,
                   last_exception, outcome, calls, modemOut, wlog, nSend,
                   nRaise, nDelay, nDrain>>
    /\ UNCHANGED <<sock, conn, args, step, other>>

\* a _clear_uart_buffer that returns without looking
drained_unchecked(buf) == TRUE

\* the condition that ends _clear_uart_buffer's loop
drained(buf) == uart_any(buf) = 0

\* _clear_uart_buffer returns; the loop's next pass calls send_command
_clear_uart_buffer_return ==
    /\ pc = "drain"
    /\ drained(rx)
    /\ nDrain' = nDrain + 1
    /\ attempt' = attempt + 1
    /\ nSend' = nSend + 1
    /\ pc' = "write"
    /\ UNCHANGED <<op, stage, self_retries, command, timeout, check_error,
                   require_response, elapsed, response, res, retries,
                   last_exception, outcome, calls, rx, modemOut, wlog, nRaise,
                   nDelay>>
    /\ UNCHANGED <<sock, conn, args, step, other>>

\* the last attempt failed: the loop ends, raise last_exception
retry_exhausted ==
    /\ pc = "ret" /\ op = "send_command_with_retry"
    /\ retryable(res)
    /\ ~retry_again(attempt, retries)
    /\ last_exception' = keep_exception(last_exception, res)
    /\ outcome' = last_exception'
    /\ pc' = "idle"
    /\ UNCHANGED <<op, stage, self_retries, command, timeout, check_error,
                   require_response, elapsed, response, res, attempt, retries,
                   calls, rx, modemOut, wlog, nSend, nRaise, nDelay, nDrain>>
    /\ UNCHANGED <<sock, conn, args, step, other>>

\* an exception the except clause does not name leaves the loop at once
retry_propagates ==
    /\ pc = "ret" /\ op = "send_command_with_retry"
    /\ res.kind # "return"
    /\ ~retryable(res)
    /\ outcome' = res
    /\ pc' = "idle"
    /\ UNCHANGED <<op, stage, self_retries, command, timeout, check_error,
                   require_response, elapsed, response, res, attempt, retries,
                   last_exception, calls, rx, modemOut, wlog, nSend, nRaise,
                   nDelay, nDrain>>
    /\ UNCHANGED <<sock, conn, args, step, other>>

\* a constructed engine, its caller and the modem
Next ==
    \/ call_send_command
    \/ call_send_command_require_response
    \/ call_send_command_with_retry
    \/ uart_write
    \/ uart_write_fails
    \/ read_response_poll
    \/ clock_tick
    \/ send_command_return
    \/ send_command_done
    \/ retry_return
    \/ retry_delay
    \/ _clear_uart_buffer_read
    \/ _clear_uart_buffer_return
    \/ retry_exhausted
    \/ retry_propagates
    \/ Emit

Spec == Init /\ [][Next]_vars

(***************************************************************************)
(* Properties of send_command_with_retry.                                  *)
(***************************************************************************)
InRetry == op = "send_command_with_retry"

\* C1: when send_command fails k <= retries times and then succeeds,
\* send_command_with_retry has called it exactly k + 1 times and returns the
\* value of that last call; no call follows a success.
C1_RetryStopsAtFirstSuccess ==
    InRetry =>
       /\ nSend \in {nRaise, nRaise + 1}
       /\ (res.kind = "return" /\ pc \in {"ret", "idle"}) =>
             /\ nSend = nRaise + 1
             /\ nRaise <= retries
       /\ (res.kind = "return" /\ pc = "idle") => outcome = res

\* two failed attempts, then a success, with retries = 2
C1_Witness ==
    /\ InRetry /\ pc = "idle"
    /\ retries = 2 /\ nRaise = 2 /\ nSend = 3
    /\ outcome.kind = "return"

\* C2: when every attempt fails, send_command_with_retry has called
\* send_command exactly retries + 1 times and raises the exception of the
\* last call, with its kind, command and response.
C2_RetryExhaustedRaisesLast ==
    (InRetry /\ pc = "idle" /\ res.kind = "SIM800CommandError") =>
       /\ nSend = retries + 1
       /\ nRaise = nSend
       /\ outcome = res

\* three failed attempts with retries = 2, the first and the last with
\* different response texts
C2_Witness ==
    /\ InRetry /\ pc = "idle"
    /\ retries = 2 /\ nRaise = 3
    /\ outcome.kind = "SIM800CommandError"
    /\ res.response = <<"?">> \o ERROR_
    /\ wlog[Len(wlog)] = Line(UserCommand)

\* C3: a retried attempt's write is reached only from a completed drain,
\* which ends with the receive buffer empty; each failed attempt that is
\* retried is followed by the drain, and nothing is written during it.
C3_DrainBeforeRetryWrite ==
    /\ [][(InRetry' /\ pc # "write" /\ pc' = "write" /\ attempt' > 0) =>
             (pc = "drain" /\ rx = <<>> /\ nDrain' = nDrain + 1)]_vars
    /\ [][(InRetry /\ pc = "ret" /\ pc' # "ret" /\ attempt < retries
             /\ res.kind = "SIM800CommandError") => pc' = "drain"]_vars
    /\ [][wlog' # wlog => pc = "write"]_vars
    /\ [](InRetry /\ pc = "write" => nDrain = attempt)

\* the second attempt has written its command, after one completed drain
C3_Witness ==
    /\ InRetry /\ pc = "read"
    /\ attempt = 1 /\ nDrain = 1
    /\ Len(wlog) = 5

\* C4: the response an attempt accumulates holds no byte the modem sent in
\* answer to an earlier write.
C4_NoStaleBytes ==
    \A i \in 1..Len(response) : response[i].own

\* C5: a failure that is neither SIM800CommandError nor SIM800TimeoutError
\* ends send_command_with_retry at once: no sleep, no drain and no further
\* attempt follow it, and the caller gets that exception.
C5_OtherFailurePropagates ==
    (InRetry /\ res.kind = "OSError") =>
       /\ pc \in {"ret", "idle"}
       /\ nDelay = nRaise - 1
       /\ nDrain = nRaise - 1
       /\ nSend = nRaise
       /\ pc = "idle" => outcome = res

\* the transport fails on the second attempt of a call with retries = 2
C5_Witness ==
    /\ InRetry /\ pc = "idle"
    /\ retries = 2 /\ nSend = 2
    /\ outcome.kind = "OSError"

(***************************************************************************)
(* Properties of send_command and read_response.                           *)
(***************************************************************************)
\* send_command ran to the end of its read window, or was refused at the call
Answered ==
    /\ op = "send_command" /\ pc = "idle"
    /\ outcome.kind # "OSError"

\* C6: with an empty accumulated response, send_command raises
\* SIM800TimeoutError(command, timeout) when require_response is set and
\* returns the empty result when it is not.
C6_EmptyResponse ==
    (Answered /\ response = <<>>) =>
        IF require_response = "True"
        THEN outcome = SIM800TimeoutError(command, timeout)
        ELSE outcome = Ret(<<>>)

\* the decoded text of the accumulated response
ResponseText == _decode_response(Raw(response))

\* send_command's read window has closed and its result is at hand
Classified == pc = "ret" /\ res.kind # "OSError"

NextSend ==
    \/ call_send_command
    \/ call_send_command_require_response
    \/ uart_write
    \/ uart_write_fails
    \/ read_response_poll
    \/ clock_tick
    \/ send_command_return
    \/ send_command_done
    \/ Emit

\* the clock runs and the polling loop keeps evaluating its condition
SpecWindow ==
    /\ Init /\ [][NextSend]_vars
    /\ WF_vars(clock_tick)
    /\ WF_vars(send_command_return)

\* C8: the read window closes only when the elapsed time has reached the
\* timeout, whatever has arrived; once it has, nothing more is read, and
\* every read window is left by a return.
C8_FullWindow ==
    /\ [][(pc = "read" /\ pc' # "read") =>
             (elapsed >= timeout /\ pc' = "ret")]_vars
    /\ [][(pc = "read" /\ elapsed >= timeout) =>
             (response' = response /\ elapsed' = elapsed)]_vars
    /\ (pc = "read") ~> (pc = "ret")

\* the window is still open although OK, or ERROR, has been read
C8_Witness ==
    /\ pc = "read" /\ elapsed < timeout
    /\ Contains(ResponseText, ERROR_)
    /\ check_error

(***************************************************************************)
(* Properties of initialize, checked from SIM800(...) on (SpecInit).       *)
(***************************************************************************)
Probes(n) == [i \in 1..n |-> Line("AT")]

IsPrefix(p, q) == Len(p) <= Len(q) /\ SubSeq(q, 1, Len(p)) = p

AcceptedByProbe(bytes) ==
    \/ Contains(_decode_response(Raw(bytes)), OK_)
    \/ Contains(_decode_response(Raw(bytes)), AT_)

\* C9: initialize writes AT unchecked at most retries + 1 times, writes no
\* further AT after a probe whose response holds OK or AT, and when every
\* probe fails raises SIM800InitializationError having written nothing else.
C9_ProbeLoop ==
    op = "initialize" =>
       /\ stage = "probe" =>
             /\ IsPrefix(wlog, Probes(self_retries + 1))
             /\ pc \in {"write", "read", "ret"} =>
                   (command = "AT" /\ ~check_error /\ nSend = attempt + 1)
             /\ (pc \in {"write", "read"} /\ attempt > 0) =>
                   ~AcceptedByProbe(res.value)
             /\ (pc = "dead" /\ res.kind = "return") =>
                   /\ outcome.kind = "SIM800InitializationError"
                   /\ wlog = Probes(self_retries + 1)
                   /\ ~AcceptedByProbe(res.value)
       /\ stage \in {"ate0", "cfun"} =>
             /\ attempt <= self_retries
             /\ IsPrefix(Probes(attempt + 1), wlog)
             /\ \A i \in (attempt + 2)..Len(wlog) : wlog[i] # Line("AT")

\* with retries = 2, three probes went unanswered and construction failed
C9_Witness ==
    /\ pc = "dead" /\ stage = "probe"
    /\ self_retries = 2
    /\ wlog = Probes(3)
    /\ outcome.kind = "SIM800InitializationError"

\* C10: after the probe, initialize writes ATE0 and then AT+CFUN=1, each
\* with check_error set; a SIM800CommandError of either leaves initialize
\* as SIM800InitializationError, and AT+CFUN=1 is not written after a
\* failed ATE0.
C10_Configuration ==
    op = "initialize" =>
       /\ outcome.kind # "SIM800CommandError"
       /\ (stage = "ate0" /\ pc \in {"write", "read", "ret"}) =>
             (command = "ATE0" /\ check_error)
       /\ (stage = "cfun" /\ pc \in {"write", "read", "ret"}) =>
             (command = "AT+CFUN=1" /\ check_error)
       /\ stage \in {"ate0", "cfun"} =>
             IsPrefix(SubSeq(wlog, attempt + 2, Len(wlog)),
                      <<Line("ATE0"), Line("AT+CFUN=1")>>)
       /\ (stage = "ate0" /\ pc = "dead") =>
             \A i \in 1..Len(wlog) : wlog[i] # Line("AT+CFUN=1")
       /\ (pc = "dead" /\ res.kind = "SIM800CommandError") =>
             /\ outcome.kind = "SIM800InitializationError"
             /\ outcome.command = res.command
       /\ pc = "idle" =>
             wlog = Probes(attempt + 1) \o <<Line("ATE0"), Line("AT+CFUN=1")>>

\* ATE0 was answered ERROR: construction failed with
\* SIM800InitializationError and AT+CFUN=1 was not written
C10_Witness ==
    /\ pc = "dead" /\ stage = "ate0"
    /\ res.kind = "SIM800CommandError"
    /\ outcome.kind = "SIM800InitializationError"
    /\ wlog[Len(wlog)] = Line("ATE0")

\* the state Init describes is one construction reaches
InitReached ==
    /\ pc = "idle" /\ rx = <<>> /\ modemOut = <<>>
    /\ wlog = <<Line("AT"), Line("ATE0"), Line("AT+CFUN=1")>>
    /\ response = Tag(Encode(OK_)) /\ res = Ret(Tag(Encode(OK_)))
    /\ elapsed = WindowTicks /\ nSend = 3 /\ nRaise = 0 /\ nDelay = 0

(***************************************************************************)
(* The life of one engine: SIM800(...), then its caller (SpecLife).        *)
(***************************************************************************)
\* the first operation the caller invokes on the engine __init__ returned:
\* sim.send_command(c, timeout=0)
first_call_send_command ==
    /\ pc = "idle" /\ calls = 0
    /\ calls' = calls + 1
    /\ op' = "send_command"
    /\ require_response' = "absent"
    /\ nSend' = 1 /\ nRaise' = 0 /\ nDelay' = 0 /\ nDrain' = 0
    /\ attempt' = 0 /\ retries' = 0
    /\ res' = NoResult /\ last_exception' = NoResult /\ outcome' = NoResult
    /\ Call(UserCommand, 0, TRUE)
    /\ UNCHANGED <<stage, self_retries, elapsed, response, rx, modemOut, wlog,
                   sock, conn>>
    /\ UNCHANGED <<args, step, other>>

\* construction, and a send_command call on the engine it returns
NextLife ==
    \/ construct
    \/ construct_uart_fails
    \/ uart_write
    \/ uart_write_fails
    \/ read_response_poll
    \/ clock_tick
    \/ send_command_return
    \/ initialize_probe_ok
    \/ initialize_probe_retry
    \/ initialize_probe_exhausted
    \/ initialize_ate0_ok
    \/ initialize_done
    \/ initialize_error
    \/ first_call_send_command
    \/ send_command_done
    \/ Emit

SpecLife == InitNew /\ [][NextLife]_vars

\* the lines a caller's operations have written
UserLines(n) == [i \in 1..n |-> Line(UserCommand)]

Ticks(ms) == (ms * WindowTicks) \div 1000

\* str(mode).upper(), on Modes
Upper(s) == CASE s = "tcp" -> "TCP" [] s = "udp" -> "UDP" [] OTHER -> s

valid_mode(mode) == mode \in {"TCP", "UDP"}

\* a port check that lets 0 through
_validate_port_from_zero(port) == 0 <= port /\ port <= 65535

\* _validate_port returns (TRUE) or raises ValueError (FALSE), for an int
_validate_port(port) == 1 <= port /\ port <= 65535

\* _validate_ip_or_host returns (TRUE) or raises ValueError (FALSE)
_validate_ip_or_host(ip) == ~(ip = <<>> \/ Strip(ip) = <<>>)

OpenOps == {"start_tcp_connection", "start_udp_connection"}

\* attempts = (self.retries + 1) if retry else 1
open_attempts(retry) == IF retry THEN self_retries + 1 ELSE 1

\* the arguments pass validation: the command is built and the loop entered
open_begin(mode, ip, port, retry) ==
    /\ sock' = [NoSocket EXCEPT !.mode = mode, !.ip = ip, !.port = port,
                                !.retry = retry,
                                !.attempts = open_attempts(retry)]
    /\ conn' = "Connecting"
    /\ attempt' = 0
    /\ nSend' = 1 /\ nRaise' = 0 /\ nDelay' = 0 /\ nDrain' = 0
    /\ res' = NoResult /\ last_exception' = NoResult /\ outcome' = NoResult
    /\ Call(CIPSTART(mode, ip, port), Ticks(10000), TRUE)
    /\ UNCHANGED <<stage, self_retries, require_response, elapsed, response,
                   retries, rx, modemOut, wlog>>
    /\ UNCHANGED <<args, step, other>>

\* validation raises ValueError: nothing else happens
open_refused(mode, ip, port) ==
    /\ sock' = [NoSocket EXCEPT !.mode = mode, !.ip = ip, !.port = port]
    /\ nSend' = 0 /\ nRaise' = 0 /\ nDelay' = 0 /\ nDrain' = 0
    /\ res' = NoResult /\ last_exception' = NoResult
    /\ outcome' = ValueError
    /\ UNCHANGED <<pc, stage, self_retries, command, timeout, check_error,
                   require_response, elapsed, response, attempt, retries, rx,
                   modemOut, wlog, conn>>
    /\ UNCHANGED <<args, step, other>>

\* sim.start_tcp_connection(mode, ip, port, retry), up to the first attempt
start_tcp_connection(mode, ip, port, retry) ==
    /\ pc = "idle"
    /\ calls' = calls + 1
    /\ op' = "start_tcp_connection"
    /\ IF valid_mode(Upper(mode)) /\ _validate_ip_or_host(ip)
          /\ _validate_port(port)
       THEN open_begin(Upper(mode), ip, port, retry)
       ELSE open_refused(Upper(mode), ip, port)

\* sim.start_udp_connection(ip, port, retry), up to the first attempt
start_udp_connection(ip, port, retry) ==
    /\ pc = "idle"
    /\ calls' = calls + 1
    /\ op' = "start_udp_connection"
    /\ IF _validate_ip_or_host(ip) /\ _validate_port(port)
       THEN open_begin("UDP", ip, port, retry)
       ELSE open_refused("UDP", ip, port)

\* the caller's first operation is start_tcp_connection
call_start_tcp_connection ==
    /\ calls = 0
    /\ \E mode \in Modes, ip \in Hosts, port \in Ports, retry \in BOOLEAN :
          start_tcp_connection(mode, ip, port, retry)

\* the caller's first operation is start_udp_connection
call_start_udp_connection ==
    /\ calls = 0
    /\ \E ip \in Hosts, port \in Ports, retry \in BOOLEAN :
          start_udp_connection(ip, port, retry)

\* a classification that takes any CONNECT for success
connect_ok_any(text) == Contains(text, CONNECT_)

\* 'CONNECT OK' in response_str or 'ALREADY CONNECT' in response_str
connect_ok(text) == Contains(text, CONNECT_OK) \/ Contains(text, ALREADY_CONNECT)

\* 'CONNECT FAIL' in response_str
connect_fail(text) == Contains(text, CONNECT_FAIL)

\* the decoded reply of the attempt that just returned
ReplyText == _decode_response(Raw(res.value))

\* the attempt ends in last_error = ...: CONNECT FAIL, or send_command raised
\* SIM800CommandError
attempt_failed ==
    \/ res.kind = "SIM800CommandError"
    \/ res.kind = "return" /\ ~connect_ok(ReplyText) /\ connect_fail(ReplyText)

\* an except clause that keeps the SIM800CommandError itself as last_error
last_error_reraised ==
    IF res.kind = "SIM800CommandError"
    THEN res
    ELSE SIM800ConnectionError(
             "Failed to connect to " \o Join(sock.ip) \o ":"
                \o Decimal(sock.port),
             sock.ip, sock.port)

\* last_error after the attempt that just failed
last_error ==
    IF res.kind = "SIM800CommandError"
    THEN SIM800ConnectionError(
             (IF op = "start_udp_connection" THEN "UDP connection failed: "
              ELSE "Connection failed: ") \o CommandErrorMessage(res),
             sock.ip, sock.port)
    ELSE SIM800ConnectionError(
             "Failed to connect to " \o Join(sock.ip) \o ":"
                \o Decimal(sock.port),
             sock.ip, sock.port)

\* a loop that sleeps and goes on whatever attempt this was
open_again_always(a, n) == TRUE

\* if attempt < attempts - 1
open_again(a, n) == a < n - 1

\* the reply holds CONNECT OK or ALREADY CONNECT: return response
open_connected ==
    /\ pc = "ret" /\ op \in OpenOps
    /\ res.kind = "return" /\ connect_ok(ReplyText)
    /\ outcome' = res
    /\ conn' = "Connected"
    /\ pc' = "idle"
    /\ UNCHANGED <<op, stage, self_retries, command, timeout, check_error,
                   require_response, elapsed, response, res, attempt, retries,
                   last_exception, calls, rx, modemOut, wlog, nSend, nRaise,
                   nDelay, nDrain, sock>>
    /\ UNCHANGED <<args, step, other>>

\* the reply holds none of the three tokens: return response
open_unclassified ==
    /\ pc = "ret" /\ op \in OpenOps
    /\ res.kind = "return"
    /\ ~connect_ok(ReplyText) /\ ~connect_fail(ReplyText)
    /\ outcome' = res
    /\ pc' = "idle"
    /\ UNCHANGED <<op, stage, self_retries, command, timeout, check_error,
                   require_response, elapsed, response, res, attempt, retries,
                   last_exception, calls, rx, modemOut, wlog, nSend, nRaise,
                   nDelay, nDrain, sock, conn>>
    /\ UNCHANGED <<args, step, other>>

\* the attempt failed and attempts remain: sleep_ms(retry_delay_ms), then
\* the next pass calls send_command again
open_retry ==
    /\ pc = "ret" /\ op \in OpenOps
    /\ attempt_failed
    /\ open_again(attempt, sock.attempts)
    /\ last_exception' = last_error
    /\ nDelay' = nDelay + 1
    /\ attempt' = attempt + 1
    /\ nSend' = nSend + 1
    /\ pc' = "write"
    /\ UNCHANGED <<op, stage, self_retries, command, timeout, check_error,
                   require_response, elapsed, response, res, retries, outcome,
                   calls, rx, modemOut, wlog, nRaise, nDrain, sock, conn>>
    /\ UNCHANGED <<args, step, other>>

\* the last attempt failed: raise last_error
open_exhausted ==
    /\ pc = "ret" /\ op \in OpenOps
    /\ attempt_failed
    /\ ~open_again(attempt, sock.attempts)
    /\ last_exception' = last_error
    /\ outcome' = last_error
    /\ conn' = "Idle"
    /\ pc' = "idle"
    /\ UNCHANGED <<op, stage, self_retries, command, timeout, check_error,
                   require_response, elapsed, response, res, attempt, retries,
                   calls, rx, modemOut, wlog, nSend, nRaise, nDelay, nDrain,
                   sock>>
    /\ UNCHANGED <<args, step, other>>

\* send_command raised something the except clause does not name
open_propagates ==
    /\ pc = "ret" /\ op \in OpenOps
    /\ res.kind \notin {"return", "SIM800CommandError"}
    /\ outcome' = res
    /\ conn' = "Idle"
    /\ pc' = "idle"
    /\ UNCHANGED <<op, stage, self_retries, command, timeout, check_error,
                   require_response, elapsed, response, res, attempt, retries,
                   last_exception, calls, rx, modemOut, wlog, nSend, nRaise,
                   nDelay, nDrain, sock>>
    /\ UNCHANGED <<args, step, other>>

\* a constructed engine whose caller opens sockets
NextOpen ==
    \/ call_start_tcp_connection
    \/ call_start_udp_connection
    \/ uart_write
    \/ uart_write_fails
    \/ read_response_poll
    \/ clock_tick
    \/ send_command_return
    \/ open_connected
    \/ open_unclassified
    \/ open_retry
    \/ open_exhausted
    \/ open_propagates
    \/ Emit

SpecOpen == Init /\ [][NextOpen]_vars

(***************************************************************************)
(* Properties of start_tcp_connection / start_udp_connection (SpecOpen).   *)
(***************************************************************************)
\* what construction wrote
InitLog == <<Line("AT"), Line("ATE0"), Line("AT+CFUN=1")>>

Opening == op \in OpenOps

\* the arguments of the open call in progress are not acceptable
BadArguments ==
    \/ sock.mode \notin {"TCP", "UDP"}
    \/ \A i \in 1..Len(sock.ip) : sock.ip[i] = " "
    \/ sock.port < 1
    \/ sock.port > 65535

\* C12: an open call whose port is outside 1..65535, whose host is empty or
\* blank, or (start_tcp_connection) whose mode, upper-cased, is neither TCP
\* nor UDP raises ValueError and writes nothing; no other open call raises
\* ValueError.
C12_InvalidArgumentsRefused ==
    Opening =>
       /\ BadArguments =>
             /\ pc = "idle"
             /\ outcome = ValueError
             /\ nSend = 0
             /\ wlog = InitLog
       /\ ~BadArguments => outcome.kind # "ValueError"

\* start_udp_connection with port 65536 was refused
C12_Witness ==
    /\ op = "start_udp_connection" /\ pc = "idle"
    /\ sock.ip = <<"h">> /\ sock.port = 65536
    /\ outcome = ValueError
    /\ wlog = InitLog

\* the open line for host h, written out
ExpectedOpenLine ==
    Line("AT+CIPSTART=\"" \o sock.mode \o "\",\"h\",\""
            \o (IF sock.port = 1 THEN "1" ELSE "65535") \o "\"")

OpenLines(n) == [i \in 1..n |-> ExpectedOpenLine]

\* C13 as stated: a valid open call issues exactly one open command.
C13_ExactlyOneOpen ==
    (Opening /\ ~BadArguments /\ pc = "idle") =>
       /\ nSend = 1
       /\ \E n \in 0..1 : wlog = InitLog \o OpenLines(n)

\* C13 amended: every line a valid open call writes is
\* AT+CIPSTART="<mode>","<host>","<port>" with the port in decimal, each sent
\* with a 10000 ms read window; one line per attempt: exactly one when retry
\* is unset, one more for every failed attempt that is retried, and never
\* more than retries + 1.
C13_OpenCommand ==
    (Opening /\ ~BadArguments) =>
       /\ Line(command) = ExpectedOpenLine
       /\ timeout = 10 * WindowTicks
       /\ check_error
       /\ nSend \in 1..(self_retries + 1)
       /\ ~sock.retry => nSend = 1
       /\ nSend = nDelay + 1
       /\ \E n \in {nSend - 1, nSend} : wlog = InitLog \o OpenLines(n)
       /\ (pc \in {"read", "ret"} /\ res.kind # "OSError") =>
             wlog = InitLog \o OpenLines(nSend)

\* start_tcp_connection('TCP', 'h', 65535) was answered CONNECT OK
C13_Witness ==
    /\ op = "start_tcp_connection" /\ pc = "idle"
    /\ sock.mode = "TCP" /\ sock.port = 65535
    /\ outcome.kind = "return"
    /\ Contains(ResponseText, CONNECT_OK)
    /\ wlog = InitLog \o OpenLines(1)

\* an open call ended after its last attempt read a reply
OpenAnswered ==
    /\ Opening /\ ~BadArguments /\ pc = "idle"
    /\ res.kind # "OSError"

Refused ==
    /\ outcome.kind = "SIM800ConnectionError"
    /\ outcome.ip = sock.ip /\ outcome.port = sock.port
    /\ nSend = sock.attempts

PreviousFailed ==
    /\ res.kind = "return"
    /\ Contains(ReplyText, CONNECT_FAIL)
    /\ ~Contains(ReplyText, CONNECT_OK)
    /\ ~Contains(ReplyText, ALREADY_CONNECT)

\* the counts of an open call: attempts, and the sleeps between them
OpenCounts ==
    /\ sock.retry => nSend <= self_retries + 1
    /\ ~sock.retry => nSend = 1
    /\ nDelay = nSend - 1
    /\ nDrain = 0

Payloads ==
    { [type |-> "bytes", v |-> <<>>],
      [type |-> "bytes", v |-> <<26>>],
      [type |-> "bytes", v |-> <<BadByte, 65>>],
      [type |-> "str", v |-> <<65, 233>>] }

\* the UTF-8 encoding of one code point
Utf8(cp) ==
    IF cp < 128 THEN <<cp>>
    ELSE IF cp < 2048 THEN <<192 + (cp \div 64), 128 + (cp % 64)>>
    ELSE IF cp < 65536
    THEN <<224 + (cp \div 4096), 128 + ((cp \div 64) % 64), 128 + (cp % 64)>>
    ELSE <<240 + (cp \div 262144), 128 + ((cp \div 4096) % 64),
           128 + ((cp \div 64) % 64), 128 + (cp % 64)>>

\* data.encode('utf-8')
RECURSIVE Utf8Encode(_)
Utf8Encode(s) == IF s = <<>> THEN <<>> ELSE Utf8(Head(s)) \o Utf8Encode(Tail(s))

\* if isinstance(data, str): data_bytes = data.encode('utf-8')
to_bytes(data) == IF data.type = "str" THEN Utf8Encode(data.v) ELSE data.v

\* a length taken before encoding
cipsend_length_of_data(data, data_bytes) == Len(data.v)

\* len(data_bytes)
cipsend_length(data, data_bytes) == Len(data_bytes)

\* self.uart.write(bytes): a write that is not a command line
RawWrite(bytes) == <<"", bytes>>

SendOps == {"send_data_tcp", "send_data_udp"}

\* a send that leaves check_error at its default
cipsend_check_error_default == TRUE

\* send_command('AT+CIPSEND=...', check_error=False)
cipsend_check_error == FALSE

\* sim.send_data_tcp(data) / sim.send_data_udp(data), up to send_command
send_data(o, data) ==
    /\ pc = "idle"
    /\ calls' = calls + 1
    /\ op' = o
    /\ stage' = "cipsend"
    /\ sock' = [NoSocket EXCEPT !.data = data, !.data_bytes = to_bytes(data)]
    /\ attempt' = 0
    /\ nSend' = 1 /\ nRaise' = 0 /\ nDelay' = 0 /\ nDrain' = 0
    /\ res' = NoResult /\ last_exception' = NoResult /\ outcome' = NoResult
    /\ Call("AT+CIPSEND=" \o Decimal(cipsend_length(data, to_bytes(data))),
            WindowTicks, cipsend_check_error)
    /\ UNCHANGED <<self_retries, require_response, elapsed, response, retries,
                   rx, modemOut, wlog, conn>>
    /\ UNCHANGED <<args, step, other>>

\* send_command returned: uart.write(data_bytes + bytes([26])), then
\* read_response() with its default timeout
send_data_payload ==
    /\ pc = "ret" /\ op \in SendOps /\ stage = "cipsend"
    /\ res.kind = "return"
    /\ wlog' = Append(wlog, RawWrite(sock.data_bytes \o <<26>>))
    /\ \E rep \in Replies : modemOut' = StaleAll(modemOut) \o TagAll(rep)
    /\ rx' = Stale(rx)
    /\ stage' = "payload"
    /\ timeout' = WindowTicks
    /\ elapsed' = 0
    /\ response' = <<>>
    /\ pc' = "read"
    /\ UNCHANGED <<op, self_retries, command, check_error, require_response,
                   res, attempt, retries, last_exception, outcome, calls,
                   nSend, nRaise, nDelay, nDrain, sock, conn>>
    /\ UNCHANGED <<args, step, other>>

\* the AT+CIPSEND send_command raised: so does send_data
send_data_propagates ==
    /\ pc = "ret" /\ op \in SendOps /\ stage = "cipsend"
    /\ res.kind # "return"
    /\ outcome' = res
    /\ pc' = "idle"
    /\ UNCHANGED <<op, stage, self_retries, command, timeout, check_error,
                   require_response, elapsed, response, res, attempt, retries,
                   last_exception, calls, rx, modemOut, wlog, nSend, nRaise,
                   nDelay, nDrain, sock, conn>>
    /\ UNCHANGED <<args, step, other>>

\* return self.read_response()
send_data_done ==
    /\ pc = "ret" /\ op \in SendOps /\ stage = "payload"
    /\ outcome' = res
    /\ pc' = "idle"
    /\ UNCHANGED <<op, stage, self_retries, command, timeout, check_error,
                   require_response, elapsed, response, res, attempt, retries,
                   last_exception, calls, rx, modemOut, wlog, nSend, nRaise,
                   nDelay, nDrain, sock, conn>>
    /\ UNCHANGED <<args, step, other>>

\* values passed as max_length
MaxLengths == {0, 1, 1460}

\* a receive command that ignores max_length
CIPRXGET_fixed(max_length) == "AT+CIPRXGET=2,1460"

\* 'AT+CIPRXGET=2,{}'.format(max_length)
CIPRXGET(max_length) == "AT+CIPRXGET=2," \o Decimal(max_length)

ReceiveOps == {"receive_data_tcp", "receive_data_udp"}

\* the first steps shared by the operations that are one send_command call
single_command(o, c, ce) ==
    /\ pc = "idle"
    /\ calls' = calls + 1
    /\ op' = o
    /\ attempt' = 0
    /\ nSend' = 1 /\ nRaise' = 0 /\ nDelay' = 0 /\ nDrain' = 0
    /\ res' = NoResult /\ last_exception' = NoResult /\ outcome' = NoResult
    /\ Call(c, WindowTicks, ce)
    /\ UNCHANGED <<stage, self_retries, require_response, elapsed, response,
                   retries, rx, modemOut, wlog, conn>>
    /\ UNCHANGED <<args, step, other>>

\* sim.receive_data_tcp()
receive_data_tcp ==
    /\ sock' = NoSocket
    /\ single_command("receive_data_tcp", "AT+CIPRXGET=2", TRUE)

\* sim.receive_data_udp(max_length)
receive_data_udp(max_length) ==
    /\ sock' = [NoSocket EXCEPT !.max_length = max_length]
    /\ IF max_length <= 0
       THEN /\ pc = "idle"
            /\ calls' = calls + 1
            /\ op' = "receive_data_udp"
            /\ nSend' = 0 /\ nRaise' = 0 /\ nDelay' = 0 /\ nDrain' = 0
            /\ res' = NoResult /\ last_exception' = NoResult
            /\ outcome' = ValueError
            /\ UNCHANGED <<pc, stage, self_retries, command, timeout,
                           check_error, require_response, elapsed, response,
                           attempt, retries, rx, modemOut, wlog, conn>>
            /\ UNCHANGED <<args, step, other>>
       ELSE single_command("receive_data_udp", CIPRXGET(max_length), TRUE)

\* return self.send_command(...): the result or the exception is the call's
receive_data_done ==
    /\ pc = "ret" /\ op \in ReceiveOps
    /\ outcome' = res
    /\ pc' = "idle"
    /\ UNCHANGED <<op, stage, self_retries, command, timeout, check_error,
                   require_response, elapsed, response, res, attempt, retries,
                   last_exception, calls, rx, modemOut, wlog, nSend, nRaise,
                   nDelay, nDrain, sock, conn>>
    /\ UNCHANGED <<args, step, other>>

CloseOps == {"close_tcp_connection", "close_udp_connection"}

\* a close that leaves check_error at its default
close_check_error_default == TRUE

\* send_command('AT+CIPCLOSE=1', check_error=False)
close_check_error == FALSE

\* sim.close_tcp_connection() / sim.close_udp_connection()
close_connection(o) ==
    /\ sock' = NoSocket
    /\ single_command(o, "AT+CIPCLOSE=1", close_check_error)

\* return self.send_command(...)
close_connection_done ==
    /\ pc = "ret" /\ op \in CloseOps
    /\ outcome' = res
    /\ conn' = "Idle"
    /\ pc' = "idle"
    /\ UNCHANGED <<op, stage, self_retries, command, timeout, check_error,
                   require_response, elapsed, response, res, attempt, retries,
                   last_exception, calls, rx, modemOut, wlog, nSend, nRaise,
                   nDelay, nDrain, sock>>
    /\ UNCHANGED <<args, step, other>>

\* the caller's first operation is send_data_tcp
call_send_data_tcp ==
    /\ calls = 0
    /\ \E data \in Payloads : send_data("send_data_tcp", data)

\* the caller's first operation is send_data_udp
call_send_data_udp ==
    /\ calls = 0
    /\ \E data \in Payloads : send_data("send_data_udp", data)

\* the caller's first operation is receive_data_tcp
call_receive_data_tcp ==
    /\ calls = 0
    /\ receive_data_tcp

\* the caller's first operation is receive_data_udp
call_receive_data_udp ==
    /\ calls = 0
    /\ \E max_length \in MaxLengths : receive_data_udp(max_length)

\* a constructed engine whose caller sends or receives on a socket
NextSock ==
    \/ call_send_data_tcp
    \/ call_send_data_udp
    \/ call_receive_data_tcp
    \/ call_receive_data_udp
    \/ uart_write
    \/ uart_write_fails
    \/ read_response_poll
    \/ clock_tick
    \/ send_command_return
    \/ send_data_payload
    \/ send_data_propagates
    \/ send_data_done
    \/ receive_data_done
    \/ Emit

SpecSock == Init /\ [][NextSock]_vars

\* socket operations one caller invokes in a row on one engine
MaxSockCalls == 2

\* the caller opens a UDP socket to host h, port 1, without retry
session_open ==
    /\ calls < MaxSockCalls
    /\ start_udp_connection(<<"h">>, 1, FALSE)

session_close_tcp ==
    /\ calls < MaxSockCalls
    /\ close_connection("close_tcp_connection")

session_close_udp ==
    /\ calls < MaxSockCalls
    /\ close_connection("close_udp_connection")

\* a constructed engine whose caller opens and closes a socket
NextSession ==
    \/ session_open
    \/ session_close_tcp
    \/ session_close_udp
    \/ uart_write
    \/ uart_write_fails
    \/ read_response_poll
    \/ clock_tick
    \/ send_command_return
    \/ open_connected
    \/ open_unclassified
    \/ open_exhausted
    \/ open_propagates
    \/ close_connection_done
    \/ Emit

SpecSession == Init /\ [][NextSession]_vars

(***************************************************************************)
(* Properties of send_data and receive_data (SpecSock).                    *)
(***************************************************************************)
Sending == op \in SendOps

\* C17: while the socket is not Connected (before any successful open, after
\* a failed open, after close) send_data writes neither AT+CIPSEND nor the
\* payload: it never gets to wait for an answer to a write.
C17_SendOnlyWhenConnected ==
    (Sending /\ conn # "Connected") => pc # "read"

\* the bytes the payload of the call in progress stands for
ExpectedBytes ==
    CASE sock.data = [type |-> "bytes", v |-> <<>>] -> <<>>
      [] sock.data = [type |-> "bytes", v |-> <<26>>] -> <<26>>
      [] sock.data = [type |-> "bytes", v |-> <<BadByte, 65>>] -> <<BadByte, 65>>
      [] sock.data = [type |-> "str", v |-> <<65, 233>>] -> <<65, 195, 169>>

\* AT+CIPSEND=<n> for that payload, n written out
ExpectedSendLine ==
    Line("AT+CIPSEND=" \o (CASE Len(ExpectedBytes) = 0 -> "0"
                             [] Len(ExpectedBytes) = 1 -> "1"
                             [] Len(ExpectedBytes) = 2 -> "2"
                             [] Len(ExpectedBytes) = 3 -> "3"))

\* C18: send_data writes AT+CIPSEND=<n>, n the number of payload bytes (of
\* the UTF-8 encoding for a str), unchecked, and then one write of exactly
\* those n bytes followed by the single byte 0x1A.
C18_SendFraming ==
    Sending =>
       /\ Line(command) = ExpectedSendLine
       /\ ~check_error
       /\ nSend = 1
       /\ sock.data_bytes = ExpectedBytes
       /\ (stage = "cipsend" /\ pc = "write") => wlog = InitLog
       /\ (stage = "cipsend" /\ pc = "read") =>
             wlog = InitLog \o <<ExpectedSendLine>>
       /\ stage = "payload" =>
             wlog = InitLog \o <<ExpectedSendLine,
                                 RawWrite(ExpectedBytes \o <<26>>)>>

\* the str with code points 65 and 233 went out as AT+CIPSEND=3 and the
\* bytes 65, 195, 169, 26
C18_Witness ==
    /\ op = "send_data_udp" /\ pc = "idle" /\ stage = "payload"
    /\ sock.data.type = "str"
    /\ wlog[4] = Line("AT+CIPSEND=3")
    /\ wlog[5] = RawWrite(<<65, 195, 169, 26>>)
    /\ outcome.kind = "return"

Receiving == op \in ReceiveOps /\ (op = "receive_data_udp" => sock.max_length > 0)

\* the receive line of the call in progress, written out
ExpectedReceiveLine ==
    Line(IF op = "receive_data_tcp" THEN "AT+CIPRXGET=2"
         ELSE IF sock.max_length = 1 THEN "AT+CIPRXGET=2,1"
         ELSE "AT+CIPRXGET=2,1460")

\* the receive command went out once, and nothing else
ReceiveIssuedOnce ==
    /\ Line(command) = ExpectedReceiveLine
    /\ nSend = 1
    /\ pc = "write" => wlog = InitLog
    /\ (pc \in {"read", "idle"} /\ res.kind # "OSError") =>
          wlog = InitLog \o <<ExpectedReceiveLine>>

\* C20 as stated: receive issues its command once and returns the modem's
\* reply unmodified, for every reply.
C20_RawReply ==
    Receiving =>
       /\ ReceiveIssuedOnce
       /\ (pc = "idle" /\ res.kind # "OSError") => outcome = Ret(response)

\* C20 amended: receive issues its command once; a reply without ERROR is
\* returned unmodified, a reply that holds ERROR is raised as
\* SIM800CommandError with the stripped text.
C20_RawReplyUnlessError ==
    Receiving =>
       /\ ReceiveIssuedOnce
       /\ check_error
       /\ (pc = "idle" /\ res.kind # "OSError") =>
             outcome = IF Contains(ResponseText, ERROR_)
                       THEN SIM800CommandError(command, Strip(ResponseText))
                       ELSE Ret(response)

\* receive_data_udp(1) returned the reply OK as it came
C20_Witness ==
    /\ op = "receive_data_udp" /\ pc = "idle"
    /\ sock.max_length = 1
    /\ outcome.kind = "return"
    /\ Raw(outcome.value) = Encode(OK_)
    /\ wlog[4] = Line("AT+CIPRXGET=2,1")

(***************************************************************************)
(* Properties of close (SpecSession).                                      *)
(***************************************************************************)
Closing == op \in CloseOps

str_find(s, t) ==
    IF Contains(s, t)
    THEN CHOOSE i \in 1..(Len(s) - Len(t) + 1) :
            /\ SubSeq(s, i, i + Len(t) - 1) = t
            /\ \A j \in 1..(i - 1) : SubSeq(s, j, j + Len(t) - 1) # t
    ELSE 0

\* s.rfind(t) counted from 1, 0 when t does not occur in s
str_rfind(s, t) ==
    IF Contains(s, t)
    THEN CHOOSE i \in 1..(Len(s) - Len(t) + 1) :
            /\ SubSeq(s, i, i + Len(t) - 1) = t
            /\ \A j \in (i + 1)..(Len(s) - Len(t) + 1) :
                  SubSeq(s, j, j + Len(t) - 1) # t
    ELSE 0

\* s.split(t) for a non-empty separator t
RECURSIVE str_split(_, _)
str_split(s, t) ==
    IF str_find(s, t) = 0 THEN <<s>>
    ELSE <<SubSeq(s, 1, str_find(s, t) - 1)>>
            \o str_split(SubSeq(s, str_find(s, t) + Len(t), Len(s)), t)

Digits == {"0", "1", "2", "3", "4", "5", "6", "7", "8", "9"}

DigitValue(c) == CHOOSE d \in 0..9 : Digit(d) = c

\* the digits of an int literal, after whitespace and one sign are removed
int_digits(s) ==
    IF Strip(s) # <<>> /\ Head(Strip(s)) \in {"+", "-"}
    THEN Tail(Strip(s)) ELSE Strip(s)

\* int(s) does not raise ValueError; exact for text without underscores
int_valid(s) ==
    /\ int_digits(s) # <<>>
    /\ \A i \in 1..Len(int_digits(s)) : int_digits(s)[i] \in Digits

RECURSIVE natural(_)
natural(ds) ==
    IF ds = <<>> THEN 0
    ELSE 10 * natural(SubSeq(ds, 1, Len(ds) - 1)) + DigitValue(ds[Len(ds)])

\* int(s) for a text int_valid accepts
int_value(s) ==
    IF Head(Strip(s)) = "-" THEN 0 - natural(int_digits(s))
    ELSE natural(int_digits(s))

(***************************************************************************)
(* get_network_time (src/sim800/core.py).                                  *)
(***************************************************************************)
\* return None
None == [type |-> "None"]

\* a year counted from 1900
century_1900(year) == int_value(year) + 1900

\* int(year) + 2000
century(year) == int_value(year) + 2000

\* time_part[2:]
minus_after(time_part) == SubSeq(time_part, 3, Len(time_part))

\* lines 230-240: <<time_only, tz>>, or <<>> when the unpacking raises
timezone_split(time_part) ==
    LET plus == str_split(time_part, <<"+">>)
        idx == str_rfind(time_part, <<"-">>)
    IN  IF Contains(time_part, <<"+">>)
        THEN IF Len(plus) = 2 THEN <<plus[1], <<"+">> \o plus[2]>> ELSE <<>>
        ELSE IF Contains(minus_after(time_part), <<"-">>)
        THEN <<SubSeq(time_part, 1, idx - 1),
               SubSeq(time_part, idx, Len(time_part))>>
        ELSE <<time_part, <<"+", "0", "0">>>>

\* lines 228 and 242-252: the dict, or None when a split or an int raises
time_dict(date_part, time_only, tz) ==
    LET date == str_split(date_part, <<"/">>)
        time == str_split(time_only, <<":">>)
    IN  IF /\ Len(date) = 3
           /\ Len(time) = 3
           /\ \A i \in 1..3 : int_valid(date[i]) /\ int_valid(time[i])
        THEN [type |-> "dict",
              year |-> century(date[1]),
              month |-> int_value(date[2]),
              day |-> int_value(date[3]),
              hour |-> int_value(time[1]),
              minute |-> int_value(time[2]),
              second |-> int_value(time[3]),
              timezone |-> tz]
        ELSE None

\* lines 227-254 for the quoted payload time_str
parse_time_str(time_str) ==
    LET parts == str_split(time_str, <<",">>)
        zone == timezone_split(parts[2])
    IN  IF Len(parts) # 2 THEN None
        ELSE IF zone = <<>> THEN None
        ELSE time_dict(parts[1], zone[1], zone[2])

\* lines 223-255 for the decoded reply response_str
parse_network_time(response_str) ==
    LET quoted == str_split(str_split(response_str, CCLK_)[2], <<"\"">>)
    IN  IF ~Contains(response_str, CCLK_) THEN None
        ELSE IF Len(quoted) < 2 THEN None
        ELSE parse_time_str(quoted[2])

\* sim.get_network_time(), up to send_command('AT+CCLK?', check_error=False)
get_network_time ==
    /\ pc = "idle"
    /\ calls' = calls + 1
    /\ op' = "get_network_time"
    /\ args' = NoArgs
    /\ step' = 0
    /\ attempt' = 0
    /\ nSend' = 1 /\ nRaise' = 0 /\ nDelay' = 0 /\ nDrain' = 0
    /\ res' = NoResult /\ last_exception' = NoResult /\ outcome' = NoResult
    /\ Call("AT+CCLK?", WindowTicks, FALSE)
    /\ UNCHANGED <<stage, self_retries, require_response, elapsed, response,
                   retries, rx, modemOut, wlog, sock, conn, other>>

\* lines 218-255: send_command returned or raised
get_network_time_result(r) ==
    IF r.kind = "return"
    THEN Ret(parse_network_time(_decode_response(Raw(r.value))))
    ELSE IF r.kind = "SIM800CommandError" THEN Ret(None)
    ELSE r

get_network_time_done ==
    /\ pc = "ret" /\ op = "get_network_time"
    /\ outcome' = get_network_time_result(res)
    /\ step' = 1
    /\ pc' = "idle"
    /\ UNCHANGED <<op, stage, self_retries, command, timeout, check_error,
                   require_response, elapsed, response, res, attempt, retries,
                   last_exception, calls, rx, modemOut, wlog, nSend, nRaise,
                   nDelay, nDrain, sock, conn, args, other>>

(***************************************************************************)
(* get_gsm_location (src/sim800/gprs.py).                                  *)
(***************************************************************************)
\* the digits of a float literal before and after the point, or <<>>
float_digits(s) ==
    LET body == IF Strip(s) # <<>> /\ Head(Strip(s)) \in {"+", "-"}
                THEN Tail(Strip(s)) ELSE Strip(s)
        parts == str_split(body, <<".">>)
    IN  IF /\ Len(parts) <= 2
           /\ \A i \in 1..Len(parts) :
                 \A j \in 1..Len(parts[i]) : parts[i][j] \in Digits
           /\ \E i \in 1..Len(parts) : parts[i] # <<>>
        THEN IF Len(parts) = 2 THEN parts ELSE <<parts[1], <<>>>>
        ELSE <<>>

\* float(s) does not raise ValueError; exact for text without exponent,
\* underscore, inf and nan
float_valid(s) == float_digits(s) # <<>>

RECURSIVE strip_zeros(_)
strip_zeros(ds) ==
    IF ds # <<>> /\ ds[Len(ds)] = "0"
    THEN strip_zeros(SubSeq(ds, 1, Len(ds) - 1)) ELSE ds

\* float(s) for a text float_valid accepts: the number m / 10^e
float_value(s) ==
    LET whole == float_digits(s)[1]
        frac == strip_zeros(float_digits(s)[2])
    IN  [m |-> IF Head(Strip(s)) = "-" THEN 0 - natural(whole \o frac)
               ELSE natural(whole \o frac),
         e |-> Len(frac)]

\* parts[0].strip() == '0'
status_ok(status) == Strip(status) = <<"0">>

\* lines 77-86: the dict, or <<>> when the reply does not parse
parse_gsm_location(response_str) ==
    LET parts == str_split(str_split(response_str, CIPGSMLOC_)[2], <<",">>)
    IN  IF /\ Contains(response_str, CIPGSMLOC_)
           /\ Len(parts) >= 5
           /\ status_ok(parts[1])
           /\ float_valid(Strip(parts[2]))
           /\ float_valid(Strip(parts[3]))
        THEN <<[type |-> "dict",
                longitude |-> float_value(Strip(parts[2])),
                latitude |-> float_value(Strip(parts[3])),
                date |-> Strip(parts[4]),
                time |-> str_split(Strip(parts[5]), <<"\r">>)[1]]>>
        ELSE <<>>

\* return response
Bytes(resp) == [type |-> "bytes", v |-> resp]

\* sim.get_gsm_location(), up to send_command(..., check_error=False)
get_gsm_location ==
    /\ pc = "idle"
    /\ calls' = calls + 1
    /\ op' = "get_gsm_location"
    /\ args' = NoArgs
    /\ step' = 0
    /\ attempt' = 0
    /\ nSend' = 1 /\ nRaise' = 0 /\ nDelay' = 0 /\ nDrain' = 0
    /\ res' = NoResult /\ last_exception' = NoResult /\ outcome' = NoResult
    /\ Call("AT+CIPGSMLOC=1,1", WindowTicks, FALSE)
    /\ UNCHANGED <<stage, self_retries, require_response, elapsed, response,
                   retries, rx, modemOut, wlog, sock, conn, other>>

\* lines 70-88: send_command returned or raised
get_gsm_location_result(r) ==
    IF r.kind # "return" THEN r
    ELSE IF parse_gsm_location(_decode_response(Raw(r.value))) # <<>>
    THEN Ret(parse_gsm_location(_decode_response(Raw(r.value)))[1])
    ELSE Ret(Bytes(r.value))

get_gsm_location_done ==
    /\ pc = "ret" /\ op = "get_gsm_location"
    /\ outcome' = get_gsm_location_result(res)
    /\ step' = 1
    /\ pc' = "idle"
    /\ UNCHANGED <<op, stage, self_retries, command, timeout, check_error,
                   require_response, elapsed, response, res, attempt, retries,
                   last_exception, calls, rx, modemOut, wlog, nSend, nRaise,
                   nDelay, nDrain, sock, conn, args, other>>

\* the caller's first operation is get_gsm_location
call_get_gsm_location ==
    /\ calls = 0
    /\ get_gsm_location

\* the caller's first operation is get_network_time
call_get_network_time ==
    /\ calls = 0
    /\ get_network_time

\* a constructed engine whose caller asks for the network time or the location
NextParse ==
    \/ call_get_network_time
    \/ call_get_gsm_location
    \/ uart_write
    \/ uart_write_fails
    \/ read_response_poll
    \/ clock_tick
    \/ send_command_return
    \/ get_network_time_done
    \/ get_gsm_location_done
    \/ Emit

SpecParse == Init /\ [][NextParse]_vars

(***************************************************************************)
(* Properties of get_network_time (SpecParse).                             *)
(***************************************************************************)
\* get_network_time has returned
TimeAsked == op = "get_network_time" /\ pc = "idle" /\ outcome.kind = "return"

\* the reply that carries payload between quotation marks
ClockLine(payload) ==
    CCLK_ \o <<" ", "\"">> \o payload
       \o <<"\"", "\r", "\n", "\r", "\n", "O", "K", "\r", "\n">>

\* the number two digits stand for
TwoDigitNumber(a, b) == 10 * DigitValue(a) + DigitValue(b)

\* yy/MM/dd,HH:mm:ss with an optional sign and two digits
WellFormedPayload(p) ==
    /\ Len(p) \in {17, 20}
    /\ p[3] = "/" /\ p[6] = "/" /\ p[9] = "," /\ p[12] = ":" /\ p[15] = ":"
    /\ \A i \in {1, 2, 4, 5, 7, 8, 10, 11, 13, 14, 16, 17} : p[i] \in Digits
    /\ Len(p) = 20 => p[18] \in {"+", "-"} /\ p[19] \in Digits /\ p[20] \in Digits

\* what stands where ClockLine has its payload
PayloadOf(text) == SubSeq(text, Len(CCLK_) + 3, Len(text) - 9)

\* C24: on a reply containing +CCLK: "yy/MM/dd,HH:mm:ss[+-]zz" the operation
\* returns year = 2000 + yy and month, day, hour, minute, second as integers
\* with the timezone as the signed string, +00 when the reply names none;
\* so for "24/12/08,14:30:45+04", "25/06/15,09:15:30-08", "23/01/01,00:00:00".
C24_NetworkTime ==
    TimeAsked =>
        LET text == ResponseText
            p == PayloadOf(text)
        IN  /\ (text = ClockLine(p) /\ WellFormedPayload(p))
                  => outcome.value =
                        [type |-> "dict",
                         year |-> 2000 + TwoDigitNumber(p[1], p[2]),
                         month |-> TwoDigitNumber(p[4], p[5]),
                         day |-> TwoDigitNumber(p[7], p[8]),
                         hour |-> TwoDigitNumber(p[10], p[11]),
                         minute |-> TwoDigitNumber(p[13], p[14]),
                         second |-> TwoDigitNumber(p[16], p[17]),
                         timezone |-> IF Len(p) = 17 THEN <<"+", "0", "0">>
                                      ELSE SubSeq(p, 18, 20)]
            /\ text = ClockLine(<<"2", "4", "/", "1", "2", "/", "0", "8", ",",
                                  "1", "4", ":", "3", "0", ":", "4", "5", "+",
                                  "0", "4">>)
                  => outcome.value =
                        [type |-> "dict", year |-> 2024, month |-> 12,
                         day |-> 8, hour |-> 14, minute |-> 30, second |-> 45,
                         timezone |-> <<"+", "0", "4">>]
            /\ text = ClockLine(<<"2", "5", "/", "0", "6", "/", "1", "5", ",",
                                  "0", "9", ":", "1", "5", ":", "3", "0", "-",
                                  "0", "8">>)
                  => outcome.value.timezone = <<"-", "0", "8">>
            /\ text = ClockLine(<<"2", "3", "/", "0", "1", "/", "0", "1", ",",
                                  "0", "0", ":", "0", "0", ":", "0", "0">>)
                  => outcome.value.timezone = <<"+", "0", "0">>

\* the reply "25/06/15,09:15:30-08" was parsed
C24_Witness ==
    /\ TimeAsked
    /\ ResponseText
          = ClockLine(<<"2", "5", "/", "0", "6", "/", "1", "5", ",", "0", "9",
                        ":", "1", "5", ":", "3", "0", "-", "0", "8">>)
    /\ outcome.value =
          [type |-> "dict", year |-> 2025, month |-> 6, day |-> 15,
           hour |-> 9, minute |-> 15, second |-> 30,
           timezone |-> <<"-", "0", "8">>]

\* the text holds +CCLK: and, between quotation marks, a well-formed payload
WellFormedClock(text) ==
    \E i \in 1..Len(text), n \in {17, 20} :
        /\ i + Len(CCLK_) + n + 2 <= Len(text)
        /\ SubSeq(text, i, i + Len(CCLK_) + 1) = CCLK_ \o <<" ", "\"">>
        /\ WellFormedPayload(
              SubSeq(text, i + Len(CCLK_) + 2, i + Len(CCLK_) + n + 1))
        /\ text[i + Len(CCLK_) + n + 2] = "\""

\* C25: on a reply whose +CCLK payload is malformed (a quotation mark or the
\* comma missing, a wrong number of date or time fields, a field that is not
\* a number) get_network_time returns None and raises nothing.
C25_MalformedNoResult ==
    (/\ op = "get_network_time" /\ pc = "idle"
     /\ res.kind = "return"
     /\ Contains(ResponseText, CCLK_)
     /\ ~WellFormedClock(ResponseText))
        => outcome = Ret(None)

\* C26: get_network_time raises SIM800CommandError carrying AT+CCLK? when the
\* reply is an ERROR reply, and raises SIM800CommandError when the +CCLK
\* payload is malformed.
C26_RaisesCommandError ==
    (/\ op = "get_network_time" /\ pc = "idle"
     /\ res.kind = "return")
        => /\ Contains(ResponseText, ERROR_)
              => /\ outcome.kind = "SIM800CommandError"
                 /\ outcome.command = "AT+CCLK?"
           /\ (Contains(ResponseText, CCLK_) /\ ~WellFormedClock(ResponseText))
              => outcome.kind = "SIM800CommandError"

\* the reply has a payload after +CCLK: and one comma in it
HasSegment ==
    /\ Contains(ResponseText, CCLK_)
    /\ Len(str_split(str_split(ResponseText, CCLK_)[2], <<"\"">>)) >= 2
    /\ Len(str_split(str_split(str_split(ResponseText, CCLK_)[2],
                               <<"\"">>)[2], <<",">>)) = 2

\* what follows the comma: the time with its zone
TimeSegment ==
    str_split(str_split(str_split(ResponseText, CCLK_)[2], <<"\"">>)[2],
              <<",">>)[2]

\* what precedes the comma
DateSegment ==
    str_split(str_split(str_split(ResponseText, CCLK_)[2], <<"\"">>)[2],
              <<",">>)[1]

\* the positions after the first at which a text holds + or -
SignsAfterFirst(seg) == {i \in 2..Len(seg) : seg[i] \in {"+", "-"}}

\* three fields around the separator, each one accepted by int()
ThreeNumbers(s, sep) ==
    /\ Len(str_split(s, <<sep>>)) = 3
    /\ \A i \in 1..3 : int_valid(str_split(s, <<sep>>)[i])

\* C28: the timezone sign is the + or - found in the time segment at a
\* position other than the first character; a + or - at the first character
\* is never taken as the sign, and a segment with no such sign yields +00.
C28_SignNotFirst ==
    (TimeAsked /\ HasSegment) =>
        /\ outcome.value.type = "dict"
              => IF SignsAfterFirst(TimeSegment) = {}
                 THEN outcome.value.timezone = <<"+", "0", "0">>
                 ELSE \E i \in SignsAfterFirst(TimeSegment) :
                         outcome.value.timezone
                            = SubSeq(TimeSegment, i, Len(TimeSegment))
        /\ (/\ SignsAfterFirst(TimeSegment) = {}
            /\ ThreeNumbers(DateSegment, "/")
            /\ ThreeNumbers(TimeSegment, ":"))
              => /\ outcome.value.type = "dict"
                 /\ outcome.value.timezone = <<"+", "0", "0">>

(***************************************************************************)
(* Properties of get_gsm_location (SpecParse).                             *)
(***************************************************************************)
\* get_gsm_location has finished on a reply send_command returned
LocationAsked ==
    /\ op = "get_gsm_location" /\ pc = "idle"
    /\ res.kind = "return" /\ response # <<>>

\* what follows +CIPGSMLOC:, cut at the commas
LocationFields(text) == str_split(str_split(text, CIPGSMLOC_)[2], <<",">>)

\* digits with at most one point and at most one leading minus
DecimalNumber(s) ==
    LET body == IF s # <<>> /\ Head(s) = "-" THEN Tail(s) ELSE s
    IN  /\ \E i \in 1..Len(body) : body[i] \in Digits
        /\ \A i \in 1..Len(body) : body[i] \in Digits \cup {"."}
        /\ Cardinality({i \in 1..Len(body) : body[i] = "."}) <= 1

\* status 0 and four further fields, the first two of them numbers
StatusZeroAndFourFields(text) ==
    /\ Contains(text, CIPGSMLOC_)
    /\ Len(LocationFields(text)) = 5
    /\ Strip(LocationFields(text)[1]) = <<"0">>
    /\ DecimalNumber(Strip(LocationFields(text)[2]))
    /\ DecimalNumber(Strip(LocationFields(text)[3]))

\* C27: get_gsm_location returns the record {longitude, latitude, date, time},
\* the time without its trailing terminator, exactly when the +CIPGSMLOC
\* reply has status 0 and four further well-formed fields; for a non-zero
\* status, a missing +CIPGSMLOC line or missing or non-numeric fields it
\* raises SIM800CommandError and returns no default.
C27_RecordOrError ==
    LocationAsked =>
        IF StatusZeroAndFourFields(ResponseText)
        THEN /\ outcome.kind = "return"
             /\ outcome.value.type = "dict"
             /\ outcome.value.date = Strip(LocationFields(ResponseText)[4])
             /\ outcome.value.time
                   = SubSeq(LocationFields(ResponseText)[5], 1,
                            str_find(LocationFields(ResponseText)[5],
                                     <<"\r">>) - 1)
        ELSE outcome.kind = "SIM800CommandError"

(***************************************************************************)
(* The SMS, HTTP, FTP, dial and APN operations (src/sim800/sms.py,          *)
(* tcpip.py, gprs.py, core.py).  Each one validates its arguments and then *)
(* runs a body of statements inside one try block; a statement is a        *)
(* send_command call, a bare uart.write or a bare read_response.           *)
(***************************************************************************)
\* except SIM800CommandError as e: raise kind(message.format(e), **fields)
Except(kind, message, fields) ==
    [kind |-> kind, message |-> message, fields |-> fields]

\* a statement outside every try block
NoExcept == Except("", "", [none |-> TRUE])

\* self.send_command(c, timeout=t, check_error=ce) under the clause err
Command(c, t, ce, err) ==
    [kind |-> "command", command |-> c, timeout |-> t, check_error |-> ce,
     bytes |-> <<>>, error |-> err]

\* self.send_command_with_retry(c, timeout=t) under the clause err
Retried(c, t, err) ==
    [kind |-> "retry", command |-> c, timeout |-> t, check_error |-> TRUE,
     bytes |-> <<>>, error |-> err]

\* self.uart.write(bytes)
Write(bytes) ==
    [kind |-> "write", command |-> "", timeout |-> 0, check_error |-> FALSE,
     bytes |-> bytes, error |-> NoExcept]

\* self.read_response()
Read ==
    [kind |-> "read", command |-> "", timeout |-> WindowTicks,
     check_error |-> FALSE, bytes |-> <<>>, error |-> NoExcept]

\* one public operation on given arguments: whether validation raises
\* ValueError, and the statements of the body
Operation(rejects, body) == [rejects |-> rejects, body |-> body]

\* arguments callers pass
Formats == {"0", "1", "2", ""}
Numbers == {"", "+1"}
Messages ==
    { [type |-> "str", v |-> <<>>],
      [type |-> "str", v |-> <<72, 233>>],
      [type |-> "bytes", v |-> <<BadByte>>] }
Indexes ==
    { [type |-> "int", v |-> 0], [type |-> "int", v |-> 1],
      [type |-> "int", v |-> 0 - 1], [type |-> "str", v |-> 1],
      [type |-> "bool", v |-> 1] }
Names == {"", "n"}
Bodies ==
    { [type |-> "None", v |-> <<>>],
      [type |-> "bytes", v |-> <<>>],
      [type |-> "str", v |-> <<233>>] }
FtpPorts == {0, 21}

\* not message, for a str or bytes message
empty(data) == data.v = <<>>

\* an index check that lets 0 through
bad_index_from_zero(index) == index.type \notin {"int", "bool"} \/ index.v < 0

\* not isinstance(index, int) or index < 1
bad_index(index) == index.type \notin {"int", "bool"} \/ index.v < 1

\* '{}'.format(index)
index_text(index) == IF index.type = "bool" THEN "True" ELSE Decimal(index.v)

\* ---- src/sim800/sms.py ----
set_sms_format(a) ==
    LET err == Except("SIM800SMSError", "Failed to set SMS format: ",
                      [number |-> "None"])
    IN  Operation(a.format \notin {"0", "1"},
                  <<Command("AT+CMGF=" \o a.format, WindowTicks, TRUE, err)>>)

send_sms(a) ==
    LET err == Except("SIM800SMSError", "Failed to send SMS: ",
                      [number |-> a.number])
    IN  Operation(a.number = "" \/ empty(a.message),
                  <<Command("AT+CMGS=\"" \o a.number \o "\"", WindowTicks,
                            FALSE, err),
                    Write(to_bytes(a.message) \o <<26>>),
                    Read>>)

read_sms(a) ==
    LET err == Except("SIM800SMSError",
                      "Failed to read SMS at index " \o index_text(a.index)
                         \o ": ",
                      [number |-> "None"])
    IN  Operation(bad_index(a.index),
                  <<Command("AT+CMGR=" \o index_text(a.index), WindowTicks,
                            TRUE, err)>>)

delete_sms(a) ==
    LET err == Except("SIM800SMSError",
                      "Failed to delete SMS at index " \o index_text(a.index)
                         \o ": ",
                      [number |-> "None"])
    IN  Operation(bad_index(a.index),
                  <<Command("AT+CMGD=" \o index_text(a.index), WindowTicks,
                            TRUE, err)>>)

read_all_sms(a) ==
    Operation(FALSE,
              <<Command("AT+CMGL=\"ALL\"", WindowTicks, TRUE,
                        Except("SIM800SMSError", "Failed to read all SMS: ",
                               [number |-> "None"]))>>)

delete_all_sms(a) ==
    Operation(FALSE,
              <<Command("AT+CMGDA=\"DEL ALL\"", WindowTicks, TRUE,
                        Except("SIM800SMSError", "Failed to delete all SMS: ",
                               [number |-> "None"]))>>)

\* ---- src/sim800/tcpip.py: HTTP ----
http_init(a) ==
    Operation(FALSE,
              <<Command("AT+HTTPINIT", WindowTicks, TRUE,
                        Except("SIM800HTTPError", "Failed to initialize HTTP: ",
                               [url |-> "None"]))>>)

\* the except clause of http_set_param
http_set_param_except(param) ==
    Except("SIM800HTTPError",
           "Failed to set HTTP parameter '" \o param \o "': ",
           [url |-> "None"])

http_set_param(a) ==
    Operation(a.param = "",
              <<Command("AT+HTTPPARA=\"" \o a.param \o "\",\"" \o a.value
                           \o "\"",
                        WindowTicks, TRUE, http_set_param_except(a.param))>>)

\* self.http_set_param("URL", url): its SIM800HTTPError passes the caller's
\* except SIM800CommandError clause
http_set_url(url) ==
    Command("AT+HTTPPARA=\"URL\",\"" \o url \o "\"", WindowTicks, TRUE,
            http_set_param_except("URL"))

http_get(a) ==
    LET err == Except("SIM800HTTPError", "HTTP GET failed: ", [url |-> a.url])
    IN  Operation(a.url = "",
                  <<http_set_url(a.url),
                    Command("AT+HTTPACTION=0", WindowTicks, FALSE, err),
                    Read>>)

http_post(a) ==
    LET err == Except("SIM800HTTPError", "HTTP POST failed: ", [url |-> a.url])
    IN  Operation(a.url = "",
                  <<http_set_url(a.url),
                    Command("AT+HTTPDATA=" \o Decimal(Len(to_bytes(a.data)))
                               \o ",10000",
                            WindowTicks, FALSE, err),
                    Write(to_bytes(a.data)),
                    Command("AT+HTTPACTION=1", WindowTicks, FALSE, err),
                    Read>>)

http_terminate(a) ==
    Operation(FALSE,
              <<Command("AT+HTTPTERM", WindowTicks, TRUE,
                        Except("SIM800HTTPError", "Failed to terminate HTTP: ",
                               [url |-> "None"]))>>)

\* ---- src/sim800/tcpip.py: FTP ----
\* an ftp_init that checks the reply to AT+SAPBR=1,1 as well
ftp_init_bearer_checked(a) ==
    LET err == Except("SIM800FTPError", "FTP initialization failed: ",
                      [filename |-> "None", path |-> "None"])
    IN  Operation(a.server = "" \/ a.username = "" \/ a.password = ""
                     \/ ~_validate_port(a.port),
                  <<Command("AT+SAPBR=3,1,\"Contype\",\"GPRS\"", WindowTicks,
                            TRUE, err),
                    Command("AT+SAPBR=1,1", WindowTicks, TRUE, err),
                    Command("AT+FTPCID=1", WindowTicks, TRUE, err),
                    Command("AT+FTPSERV=\"" \o a.server \o "\"", WindowTicks,
                            TRUE, err),
                    Command("AT+FTPPORT=" \o Decimal(a.port), WindowTicks,
                            TRUE, err),
                    Command("AT+FTPUN=\"" \o a.username \o "\"", WindowTicks,
                            TRUE, err),
                    Command("AT+FTPPW=\"" \o a.password \o "\"", WindowTicks,
                            TRUE, err)>>)

ftp_init(a) ==
    LET err == Except("SIM800FTPError", "FTP initialization failed: ",
                      [filename |-> "None", path |-> "None"])
    IN  Operation(a.server = "" \/ a.username = "" \/ a.password = ""
                     \/ ~_validate_port(a.port),
                  <<Command("AT+SAPBR=3,1,\"Contype\",\"GPRS\"", WindowTicks,
                            TRUE, err),
                    Command("AT+SAPBR=1,1", WindowTicks, FALSE, err),
                    Command("AT+FTPCID=1", WindowTicks, TRUE, err),
                    Command("AT+FTPSERV=\"" \o a.server \o "\"", WindowTicks,
                            TRUE, err),
                    Command("AT+FTPPORT=" \o Decimal(a.port), WindowTicks,
                            TRUE, err),
                    Command("AT+FTPUN=\"" \o a.username \o "\"", WindowTicks,
                            TRUE, err),
                    Command("AT+FTPPW=\"" \o a.password \o "\"", WindowTicks,
                            TRUE, err)>>)

ftp_get_file(a) ==
    LET err == Except("SIM800FTPError", "FTP download failed: ",
                      [filename |-> a.filename, path |-> a.remote_path])
    IN  Operation(a.filename = "" \/ a.remote_path = "",
                  <<Command("AT+FTPGETPATH=\"" \o a.remote_path \o "\"",
                            WindowTicks, TRUE, err),
                    Command("AT+FTPGETNAME=\"" \o a.filename \o "\"",
                            WindowTicks, TRUE, err),
                    Command("AT+FTPGET=1", WindowTicks, FALSE, err),
                    Command("AT+FTPGET=2,1024", Ticks(10000), FALSE, err)>>)

ftp_put_file(a) ==
    LET err == Except("SIM800FTPError", "FTP upload failed: ",
                      [filename |-> a.filename, path |-> a.remote_path])
    IN  Operation(a.filename = "" \/ a.remote_path = ""
                     \/ a.data.type = "None",
                  <<Command("AT+FTPPUTPATH=\"" \o a.remote_path \o "\"",
                            WindowTicks, TRUE, err),
                    Command("AT+FTPPUTNAME=\"" \o a.filename \o "\"",
                            WindowTicks, TRUE, err),
                    Command("AT+FTPPUT=1", WindowTicks, FALSE, err),
                    Command("AT+FTPPUT=2," \o Decimal(Len(to_bytes(a.data))),
                            WindowTicks, FALSE, err),
                    Write(to_bytes(a.data)),
                    Read>>)

ftp_close(a) ==
    Operation(FALSE,
              <<Command("AT+SAPBR=0,1", WindowTicks, TRUE,
                        Except("SIM800FTPError",
                               "Failed to close FTP session: ",
                               [filename |-> "None", path |-> "None"]))>>)

\* ---- src/sim800/core.py ----
dial_number(a) ==
    Operation(a.number = "",
              <<Command("ATD" \o a.number \o ";", WindowTicks, TRUE,
                        NoExcept)>>)

\* ---- src/sim800/gprs.py ----
\* a set_apn that sends AT+CSTT through the retry policy as well
set_apn_retries_both(a) ==
    LET err == Except("SIM800ConnectionError", "Failed to set APN: ",
                      [ip |-> "None", port |-> "None"])
    IN  Operation(a.apn = "",
                  <<Retried("AT+CSTT=\"" \o a.apn \o "\",\"" \o a.user
                               \o "\",\"" \o a.pwd \o "\"",
                            WindowTicks, err),
                    IF a.retry THEN Retried("AT+CIICR", Ticks(30000), err)
                    ELSE Command("AT+CIICR", Ticks(30000), TRUE, err)>>)

set_apn(a) ==
    LET err == Except("SIM800ConnectionError", "Failed to set APN: ",
                      [ip |-> "None", port |-> "None"])
    IN  Operation(a.apn = "",
                  <<Command("AT+CSTT=\"" \o a.apn \o "\",\"" \o a.user
                               \o "\",\"" \o a.pwd \o "\"",
                            WindowTicks, TRUE, err),
                    IF a.retry THEN Retried("AT+CIICR", Ticks(30000), err)
                    ELSE Command("AT+CIICR", Ticks(30000), TRUE, err)>>)

\* the method of that name
Method(o, a) ==
    CASE o = "set_sms_format" -> set_sms_format(a)
      [] o = "send_sms" -> send_sms(a)
      [] o = "read_sms" -> read_sms(a)
      [] o = "delete_sms" -> delete_sms(a)
      [] o = "read_all_sms" -> read_all_sms(a)
      [] o = "delete_all_sms" -> delete_all_sms(a)
      [] o = "http_init" -> http_init(a)
      [] o = "http_set_param" -> http_set_param(a)
      [] o = "http_get" -> http_get(a)
      [] o = "http_post" -> http_post(a)
      [] o = "http_terminate" -> http_terminate(a)
      [] o = "ftp_init" -> ftp_init(a)
      [] o = "ftp_get_file" -> ftp_get_file(a)
      [] o = "ftp_put_file" -> ftp_put_file(a)
      [] o = "ftp_close" -> ftp_close(a)
      [] o = "dial_number" -> dial_number(a)
      [] o = "set_apn" -> set_apn(a)

\* the statements of the operation in progress, and the one being executed
Body == Method(op, args).body
Statement == Body[step]

\* raise kind(message.format(e), **fields)
DomainError(err, e) ==
    [kind |-> err.kind, command |-> "", response |-> <<>>, value |-> <<>>,
     message |-> err.message \o CommandErrorMessage(e), fields |-> err.fields]

\* a try block without its except clause
Raise_unwrapped(err, e) == e

\* what leaves the try block when a statement under the clause err raises e
Raise(err, e) ==
    IF e.kind = "SIM800CommandError" /\ err.kind # ""
    THEN DomainError(err, e)
    ELSE e

\* send_sms, lines 45-48: the reply to the message body is searched for ERROR
send_sms_result(a, r) ==
    IF Contains(_decode_response(Raw(r.value)), ERROR_)
    THEN [kind |-> "SIM800SMSError", command |-> "", response |-> <<>>,
          value |-> <<>>, message |-> "Failed to send SMS to " \o a.number,
          fields |-> [number |-> a.number]]
    ELSE r

\* what the operation hands back once its last statement has returned r
Result(o, a, r) == IF o = "send_sms" THEN send_sms_result(a, r) ELSE r

\* sim.o(a): validation, then the first statement of the body
operation(o, a) ==
    /\ pc = "idle"
    /\ calls' = calls + 1
    /\ op' = o
    /\ args' = a
    /\ attempt' = 0
    /\ nRaise' = 0 /\ nDelay' = 0 /\ nDrain' = 0
    /\ res' = NoResult /\ last_exception' = NoResult
    /\ IF Method(o, a).rejects
       THEN /\ outcome' = ValueError
            /\ step' = 0
            /\ nSend' = 0
            /\ UNCHANGED <<pc, command, timeout, check_error, retries>>
       ELSE /\ outcome' = NoResult
            /\ step' = 1
            /\ nSend' = 1
            /\ retries' = self_retries
            /\ Call(Method(o, a).body[1].command, Method(o, a).body[1].timeout,
                    Method(o, a).body[1].check_error)
    /\ UNCHANGED <<stage, self_retries, require_response, elapsed, response,
                   rx, modemOut, wlog, sock, conn, other>>

\* the statement returned and the next one is a send_command or a
\* send_command_with_retry
operation_command ==
    /\ pc = "ret" /\ op \in Methods
    /\ res.kind = "return"
    /\ step < Len(Body)
    /\ Body[step + 1].kind \in {"command", "retry"}
    /\ step' = step + 1
    /\ attempt' = 0
    /\ retries' = self_retries
    /\ last_exception' = NoResult
    /\ nSend' = nSend + 1
    /\ Call(Body[step + 1].command, Body[step + 1].timeout,
            Body[step + 1].check_error)
    /\ UNCHANGED <<op, stage, self_retries, require_response, elapsed,
                   response, res, outcome, calls, rx, modemOut, wlog, nRaise,
                   nDelay, nDrain, sock, conn, args, other>>

\* the statement returned and the next one is self.uart.write(bytes); the
\* modem takes the bytes and picks its answer
operation_write ==
    /\ pc = "ret" /\ op \in Methods
    /\ res.kind = "return"
    /\ step < Len(Body)
    /\ Body[step + 1].kind = "write"
    /\ step' = step + 1
    /\ wlog' = Append(wlog, RawWrite(Body[step + 1].bytes))
    /\ \E rep \in Answers : modemOut' = StaleAll(modemOut) \o TagAll(rep)
    /\ rx' = Stale(rx)
    /\ UNCHANGED <<pc, op, stage, self_retries, command, timeout, check_error,
                   require_response, elapsed, response, res, attempt, retries,
                   last_exception, outcome, calls, nSend, nRaise, nDelay,
                   nDrain, sock, conn, args, other>>

\* the statement returned and the next one is self.read_response()
operation_read ==
    /\ pc = "ret" /\ op \in Methods
    /\ res.kind = "return"
    /\ step < Len(Body)
    /\ Body[step + 1].kind = "read"
    /\ step' = step + 1
    /\ timeout' = Body[step + 1].timeout
    /\ check_error' = Body[step + 1].check_error
    /\ elapsed' = 0
    /\ response' = <<>>
    /\ pc' = "read"
    /\ UNCHANGED <<op, stage, self_retries, command, require_response, res,
                   attempt, retries, last_exception, outcome, calls, rx,
                   modemOut, wlog, nSend, nRaise, nDelay, nDrain, sock, conn,
                   args, other>>

\* the last statement returned: so does the operation
operation_returns ==
    /\ pc = "ret" /\ op \in Methods
    /\ res.kind = "return"
    /\ step = Len(Body)
    /\ outcome' = Result(op, args, res)
    /\ pc' = "idle"
    /\ UNCHANGED <<op, stage, self_retries, command, timeout, check_error,
                   require_response, elapsed, response, res, attempt, retries,
                   last_exception, calls, rx, modemOut, wlog, nSend, nRaise,
                   nDelay, nDrain, sock, conn, args, step, other>>

\* send_command_with_retry caught a failure and has attempts left:
\* sleep_ms(retry_delay_ms), then drain
operation_retry_delay ==
    /\ pc = "ret" /\ op \in Methods
    /\ Statement.kind = "retry"
    /\ retryable(res)
    /\ retry_again(attempt, retries)
    /\ last_exception' = keep_exception(last_exception, res)
    /\ nDelay' = nDelay + 1
    /\ pc' = "drain"
    /\ UNCHANGED <<op, stage, self_retries, command, timeout, check_error,
                   require_response, elapsed, response, res, attempt, retries,
                   outcome, calls, rx, modemOut, wlog, nSend, nRaise, nDrain,
                   sock, conn, args, step, other>>

\* a statement raised for good: the except clause of the try block decides
\* what the caller sees
operation_raises ==
    /\ pc = "ret" /\ op \in Methods
    /\ res.kind # "return"
    /\ Statement.kind = "retry" /\ retryable(res)
          => ~retry_again(attempt, retries)
    /\ outcome' = Raise(Statement.error, res)
    /\ pc' = "idle"
    /\ UNCHANGED <<op, stage, self_retries, command, timeout, check_error,
                   require_response, elapsed, response, res, attempt, retries,
                   last_exception, calls, rx, modemOut, wlog, nSend, nRaise,
                   nDelay, nDrain, sock, conn, args, step, other>>

\* the first operation a caller invokes, one action per public method
call_set_sms_format ==
    /\ calls = 0
    /\ \E f \in Formats : operation("set_sms_format", [format |-> f])

call_send_sms ==
    /\ calls = 0
    /\ \E n \in Numbers, m \in Messages :
          operation("send_sms", [number |-> n, message |-> m])

call_read_sms ==
    /\ calls = 0
    /\ \E i \in Indexes : operation("read_sms", [index |-> i])

call_delete_sms ==
    /\ calls = 0
    /\ \E i \in Indexes : operation("delete_sms", [index |-> i])

call_read_all_sms ==
    /\ calls = 0
    /\ operation("read_all_sms", NoArgs)

call_delete_all_sms ==
    /\ calls = 0
    /\ operation("delete_all_sms", NoArgs)

call_http_init ==
    /\ calls = 0
    /\ operation("http_init", NoArgs)

call_http_set_param ==
    /\ calls = 0
    /\ \E p \in Names : operation("http_set_param", [param |-> p, value |-> "v"])

call_http_get ==
    /\ calls = 0
    /\ \E u \in Names : operation("http_get", [url |-> u])

call_http_post ==
    /\ calls = 0
    /\ \E u \in Names, d \in Messages :
          operation("http_post", [url |-> u, data |-> d])

call_http_terminate ==
    /\ calls = 0
    /\ operation("http_terminate", NoArgs)

call_ftp_init ==
    /\ calls = 0
    /\ \E s \in Names, u \in Names, p \in Names, n \in FtpPorts :
          operation("ftp_init",
                    [server |-> s, username |-> u, password |-> p, port |-> n])

call_ftp_get_file ==
    /\ calls = 0
    /\ \E f \in Names, p \in Names :
          operation("ftp_get_file", [filename |-> f, remote_path |-> p])

call_ftp_put_file ==
    /\ calls = 0
    /\ \E f \in Names, p \in Names, d \in Bodies :
          operation("ftp_put_file",
                    [filename |-> f, remote_path |-> p, data |-> d])

call_ftp_close ==
    /\ calls = 0
    /\ operation("ftp_close", NoArgs)

call_dial_number ==
    /\ calls = 0
    /\ \E n \in Numbers : operation("dial_number", [number |-> n])

call_set_apn ==
    /\ calls = 0
    /\ \E a \in Names, r \in BOOLEAN :
          operation("set_apn", [apn |-> a, user |-> "", pwd |-> "", retry |-> r])

\* one SMS, HTTP, FTP, dial or APN operation, or one socket send or receive
NextOps ==
    \/ call_set_sms_format
    \/ call_send_sms
    \/ call_read_sms
    \/ call_delete_sms
    \/ call_read_all_sms
    \/ call_delete_all_sms
    \/ call_http_init
    \/ call_http_set_param
    \/ call_http_get
    \/ call_http_post
    \/ call_http_terminate
    \/ call_ftp_init
    \/ call_ftp_get_file
    \/ call_ftp_put_file
    \/ call_ftp_close
    \/ call_dial_number
    \/ call_set_apn
    \/ call_send_data_tcp
    \/ call_send_data_udp
    \/ call_receive_data_udp
    \/ uart_write
    \/ uart_write_fails
    \/ read_response_poll
    \/ clock_tick
    \/ send_command_return
    \/ operation_command
    \/ operation_write
    \/ operation_read
    \/ operation_returns
    \/ operation_retry_delay
    \/ _clear_uart_buffer_read
    \/ _clear_uart_buffer_return
    \/ operation_raises
    \/ send_data_payload
    \/ send_data_propagates
    \/ send_data_done
    \/ receive_data_done
    \/ Emit

SpecOps == Init /\ [][NextOps]_vars

\* set_apn
NextApn ==
    \/ call_set_apn
    \/ uart_write
    \/ uart_write_fails
    \/ read_response_poll
    \/ clock_tick
    \/ send_command_return
    \/ operation_command
    \/ operation_returns
    \/ operation_retry_delay
    \/ _clear_uart_buffer_read
    \/ _clear_uart_buffer_return
    \/ operation_raises
    \/ Emit

SpecApn == Init /\ [][NextApn]_vars

(***************************************************************************)
(* Properties of the SMS, HTTP, FTP, dial and APN operations (SpecOps).    *)
(***************************************************************************)
\* the call in progress was handed an argument its operation refuses
Rejecting ==
    \/ op = "send_sms" /\ (args.number = "" \/ args.message.v = <<>>)
    \/ op = "dial_number" /\ args.number = ""
    \/ op \in {"read_sms", "delete_sms"}
          /\ (args.index.type = "str" \/ args.index.v <= 0)
    \/ op = "set_sms_format" /\ args.format \notin {"0", "1"}
    \/ op = "set_apn" /\ args.apn = ""
    \/ op \in {"http_get", "http_post"} /\ args.url = ""
    \/ op = "http_set_param" /\ args.param = ""
    \/ op = "ftp_init"
          /\ (args.server = "" \/ args.username = "" \/ args.password = "")
    \/ op \in {"ftp_get_file", "ftp_put_file"}
          /\ (args.filename = "" \/ args.remote_path = "")
    \/ op = "receive_data_udp" /\ sock.max_length <= 0

\* C23: an operation that rejects a caller argument (empty recipient or
\* message, empty number to dial, SMS index that is not a positive integer,
\* SMS format outside {0,1}, empty APN, empty URL or HTTP parameter name,
\* empty FTP server, username, password, filename or path, non-positive
\* max_length) raises ValueError with nothing written to the transport, no
\* send_command call made, and no retry delay or drain.
C23_RejectedBeforeAnyWrite ==
    Rejecting =>
       /\ pc = "idle"
       /\ outcome.kind = "ValueError"
       /\ wlog = InitLog
       /\ nSend = 0
       /\ nDelay = 0
       /\ nDrain = 0
       /\ modemOut = <<>> /\ rx = <<>>

\* read_sms(0) has been refused
C23_Witness ==
    /\ op = "read_sms" /\ args.index = [type |-> "int", v |-> 0]
    /\ calls = 1
    /\ outcome.kind = "ValueError"
    /\ wlog = InitLog

\* the SMS, HTTP and FTP operations, and the error each one names
SmsOps ==
    {"set_sms_format", "send_sms", "read_sms", "delete_sms", "read_all_sms",
     "delete_all_sms"}

HttpOps ==
    {"http_init", "http_set_param", "http_get", "http_post", "http_terminate"}

FtpOps == {"ftp_init", "ftp_get_file", "ftp_put_file", "ftp_close"}

\* an underlying send_command of the operation has raised SIM800CommandError
\* and the operation has ended
CommandFailed == pc = "idle" /\ calls = 1 /\ res.kind = "SIM800CommandError"

\* C22: no SMS, HTTP or FTP operation hands SIM800CommandError to its caller;
\* when an underlying command fails with SIM800CommandError the operation
\* raises SIM800SMSError, SIM800HTTPError or SIM800FTPError respectively, and
\* the message quotes the failed command.
C22_DomainErrors ==
    op \in SmsOps \cup HttpOps \cup FtpOps =>
       /\ outcome.kind # "SIM800CommandError"
       /\ CommandFailed =>
             /\ op \in SmsOps => outcome.kind = "SIM800SMSError"
             /\ op \in HttpOps => outcome.kind = "SIM800HTTPError"
             /\ op \in FtpOps => outcome.kind = "SIM800FTPError"
             /\ res.command = wlog[Len(wlog)][1]
             /\ op = "read_sms" =>
                   outcome.message =
                      "Failed to read SMS at index " \o index_text(args.index)
                         \o ": Command '" \o res.command \o "' failed: ERROR"

\* the fifth command of ftp_init was answered ERROR
C22_Witness ==
    /\ op = "ftp_init" /\ CommandFailed
    /\ step = 5
    /\ outcome.kind = "SIM800FTPError"
    /\ outcome.message =
          "FTP initialization failed: Command 'AT+FTPPORT=21' failed: ERROR"

\* the read window of the command line written last is still open
WindowOpen == pc = "read" /\ elapsed < timeout

\* C21: at most one command is in flight: while the read window of the command
\* written last is still open the engine stays in that read loop and writes
\* nothing to the transport, whichever operation is running (socket send, SMS
\* send, HTTP GET/POST, FTP get/put and the single-command ones); a write
\* happens only between send_command calls.
C21_OneCommandInFlight ==
    [][/\ WindowOpen => pc' = "read" /\ wlog' = wlog
       /\ wlog' # wlog => pc \in {"write", "ret"}]_vars

\* http_post has run to its end: three command lines and the body, one after
\* the other
C21_Witness ==
    /\ op = "http_post" /\ pc = "idle" /\ calls = 1
    /\ outcome.kind = "return"
    /\ wlog = InitLog
                 \o << Line("AT+HTTPPARA=\"URL\",\"n\""),
                       Line("AT+HTTPDATA=3,10000"),
                       RawWrite(<<72, 195, 169>>),
                       Line("AT+HTTPACTION=1") >>

\* the lines ftp_init("n", "n", "n", 21) writes, in order
FtpInitLines ==
    << Line("AT+SAPBR=3,1,\"Contype\",\"GPRS\""),
       Line("AT+SAPBR=1,1"),
       Line("AT+FTPCID=1"),
       Line("AT+FTPSERV=\"n\""),
       Line("AT+FTPPORT=21"),
       Line("AT+FTPUN=\"n\""),
       Line("AT+FTPPW=\"n\"") >>

\* ftp_init is running or has run on arguments it accepts
FtpInitAccepted ==
    /\ op = "ftp_init"
    /\ args = [server |-> "n", username |-> "n", password |-> "n", port |-> 21]

\* how many writes the operation has made
Written == Len(wlog) - Len(InitLog)

\* the reply the command just finished has collected contains ERROR
ErrorReply == Contains(ResponseText, ERROR_)

ApnAccepted == op = "set_apn" /\ args.apn = "n"

CsttLine == Line("AT+CSTT=\"n\",\"\",\"\"")

CiicrLine == Line("AT+CIICR")

\* how many times AT+CIICR has been written
CiicrWritten == IF Written = 0 THEN 0 ELSE Written - 1

\* C30: set_apn writes AT+CSTT exactly once, with no retry delay or drain
\* around it; AT+CIICR is written only after the AT+CSTT call returned a reply
\* without ERROR; with retry set AT+CIICR goes through the retry policy (one
\* write per attempt, at most retries + 1, all of them used before the
\* operation fails), without it AT+CIICR is written exactly once; a
\* SIM800CommandError from either command reaches the caller as
\* SIM800ConnectionError.
C30_SetApn ==
    ApnAccepted =>
       /\ Written >= 1 => wlog[Len(InitLog) + 1] = CsttLine
       /\ \A i \in (Len(InitLog) + 2)..Len(wlog) : wlog[i] = CiicrLine
       /\ step = 1 => Written <= 1 /\ attempt = 0 /\ nDelay = 0 /\ nDrain = 0
       /\ step = 2 /\ attempt = 0 /\ pc \in {"write", "read"} =>
             /\ res.kind = "return"
             /\ ~Contains(_decode_response(Raw(res.value)), ERROR_)
       /\ step = 2 /\ pc \in {"read", "ret", "drain", "idle"}
             /\ res.kind # "OSError" => CiicrWritten = attempt + 1
       /\ CiicrWritten <= (IF args.retry THEN self_retries + 1 ELSE 1)
       /\ ~args.retry => nDelay = 0 /\ nDrain = 0
       /\ pc = "idle" =>
             /\ outcome.kind
                   \in {"return", "SIM800ConnectionError", "OSError"}
             /\ outcome.kind = "return" =>
                   step = 2 /\ ~Contains(ResponseText, ERROR_)
             /\ res.kind = "SIM800CommandError" =>
                   /\ outcome.kind = "SIM800ConnectionError"
                   /\ outcome.message =
                         "Failed to set APN: Command '" \o res.command
                            \o "' failed: " \o Join(res.response)
                   /\ step = 2 =>
                         CiicrWritten
                            = (IF args.retry THEN self_retries + 1 ELSE 1)

\* with retry set every attempt at AT+CIICR was answered ERROR
C30_Witness ==
    /\ ApnAccepted /\ args.retry
    /\ pc = "idle" /\ step = 2
    /\ self_retries >= 1
    /\ wlog = InitLog \o <<CsttLine>>
                 \o [i \in 1..(self_retries + 1) |-> CiicrLine]
    /\ outcome.kind = "SIM800ConnectionError"
    /\ outcome.message = "Failed to set APN: Command 'AT+CIICR' failed: ERROR"

(***************************************************************************)
(* Delays and drains of send_command_with_retry (Spec).                    *)
(***************************************************************************)
Min(a, b) == IF a <= b THEN a ELSE b

\* send_command_with_retry has returned or raised
RetryEnded == InRetry /\ pc = "idle" /\ calls > 0

\* C35 as stated: at the end of one send_command_with_retry call with f failed
\* attempts, the delays and the drains both number min(f, retries).
C35_DelaysAndDrains ==
    RetryEnded =>
       /\ nDelay = Min(nRaise, retries)
       /\ nDrain = Min(nRaise, retries)

\* the attempts of the call that failed with an exception the loop catches
CaughtFailures == IF res.kind = "OSError" THEN nRaise - 1 ELSE nRaise

\* C35: at the end of one send_command_with_retry call in which f attempts
\* failed with SIM800CommandError or SIM800TimeoutError, the delays and the
\* drains both number min(f, retries); a delay starts only at such a failure
\* with attempts left and leads into the drain, a drain completes only into
\* the next attempt's write (both within the call), and an attempt that fails
\* with any other exception ends the call with no delay and no drain after it.
C35_DelaysAndDrainsCaught ==
    /\ [](RetryEnded =>
             /\ nDelay = Min(CaughtFailures, retries)
             /\ nDrain = Min(CaughtFailures, retries))
    /\ [](InRetry => (nDelay = IF pc = "drain" THEN nDrain + 1 ELSE nDrain))
    /\ [][(InRetry /\ calls' = calls /\ nDelay' # nDelay) =>
             /\ pc = "ret" /\ pc' = "drain"
             /\ res.kind \in {"SIM800CommandError", "SIM800TimeoutError"}
             /\ attempt < retries
             /\ nDelay' = nDelay + 1]_vars
    /\ [][(InRetry /\ calls' = calls /\ nDrain' # nDrain) =>
             (pc = "drain" /\ pc' = "write" /\ nDrain' = nDrain + 1)]_vars
    /\ [][(InRetry /\ pc = "ret" /\ pc' = "idle") =>
             (nDelay' = nDelay /\ nDrain' = nDrain)]_vars

\* three failed attempts with retries = 2: two delays and two drains
C35_Witness ==
    /\ RetryEnded
    /\ retries = 2 /\ nRaise = 3
    /\ res.kind = "SIM800CommandError"
    /\ nDelay = 2 /\ nDrain = 2

ErrorAttempt == Opening /\ ~BadArguments /\ res.kind = "SIM800CommandError"

RECURSIVE Flat(_)
Flat(chunks) ==
    IF chunks = <<>> THEN <<>> ELSE Head(chunks) \o Flat(Tail(chunks))

\* every byte on its way to the caller, oldest first: read already, waiting
\* in the receive buffer, not sent yet
Stream == response \o rx \o Flat(modemOut)

\* C33: read_response returns exactly the bytes the transport made available
\* while the window was open, in arrival order: during the window each step
\* only moves bytes forward along the line modem - receive buffer - response,
\* none lost, duplicated or reordered, the value handed back is the response
\* accumulated at the deadline, and from the deadline on the response does
\* not change: bytes arriving later stay in the receive buffer.
C33_ExactBytes ==
    /\ [][(pc = "read" /\ pc' = "read") =>
             /\ Stream' = Stream
             /\ \E n \in 0..Len(rx) :
                   response' = response \o SubSeq(rx, 1, n)]_vars
    /\ [][(pc = "read" /\ pc' = "ret") =>
             /\ elapsed >= timeout
             /\ Stream' = Stream /\ response' = response /\ rx' = rx
             /\ res'.kind = "return" => res'.value = response]_vars
    /\ [][(pc \in {"ret", "idle"} /\ pc' \in {"ret", "idle"}
             /\ calls' = calls) =>
             /\ response' = response
             /\ rx \o Flat(modemOut) = rx' \o Flat(modemOut')
             /\ Len(rx') >= Len(rx)]_vars

\* the window closed on the first two bursts of a reply and the third burst
\* has arrived since: it sits in the receive buffer
C33_Witness ==
    /\ pc = "idle" /\ calls = 1
    /\ outcome.kind = "return"
    /\ Raw(outcome.value) = Encode(<<"E", "R", "R", "O", "R">>)
    /\ Raw(rx) = Encode(<<"\r">>)
    /\ modemOut = <<>>

(***************************************************************************)
(* _decode_response on its own: the state after construction with a        *)
(* response to decode, and one call of the method.                         *)
(***************************************************************************)
\* the longest byte string decoded
MaxBytes == 3

\* the bytes the responses are made of: an ASCII letter, the lead and the
\* continuation byte of a two-byte character, the lead of a three-byte
\* character, and a byte no encoding contains
DecodeBytes == {65, 195, 169, 226, BadByte}

RECURSIVE SeqsUpTo(_, _)
SeqsUpTo(S, n) ==
    IF n = 0 THEN {<<>>}
    ELSE LET shorter == SeqsUpTo(S, n - 1)
         IN  shorter \cup {Append(s, x) : s \in shorter, x \in S}

\* the responses handed to _decode_response: bytes, or text
DecodeInputs ==
    {[type |-> "bytes", v |-> b] : b \in SeqsUpTo(DecodeBytes, MaxBytes)}
        \cup {[type |-> "str", v |-> t] : t \in SeqsUpTo({"A", "?"}, 2)}

\* the state after construction with retries=r, with bytes the modem has
\* still to send and the arguments of the call to come
Constructed(r, out, a) ==
    /\ pc = "idle"
    /\ op = "initialize"
    /\ stage = "cfun"
    /\ self_retries = r
    /\ command = "AT+CFUN=1"
    /\ timeout = WindowTicks
    /\ check_error = TRUE
    /\ require_response = "absent"
    /\ elapsed = WindowTicks
    /\ response = Tag(Encode(OK_))
    /\ res = Ret(Tag(Encode(OK_)))
    /\ attempt = 0
    /\ retries = 0
    /\ last_exception = NoResult
    /\ outcome = Ret(<<>>)
    /\ calls = 0
    /\ rx = <<>>
    /\ modemOut = out
    /\ wlog = <<Line("AT"), Line("ATE0"), Line("AT+CFUN=1")>>
    /\ nSend = 3
    /\ nRaise = 0
    /\ nDelay = 0
    /\ nDrain = 0
    /\ sock = NoSocket
    /\ conn = "Idle"
    /\ args = a
    /\ step = 0
    /\ other = NoCaller

InitDecode ==
    \E r \in 0..MaxRetries, b \in DecodeInputs :
        Constructed(r, <<>>, [response |-> b])

\* sim._decode_response(response)
call_decode_response ==
    /\ pc = "idle" /\ calls = 0
    /\ op' = "_decode_response"
    /\ outcome' = Ret(decode(args.response))
    /\ calls' = 1
    /\ UNCHANGED <<pc, stage, self_retries, command, timeout, check_error,
                   require_response, elapsed, response, res, attempt, retries,
                   last_exception, rx, modemOut, wlog, nSend, nRaise, nDelay,
                   nDrain, sock, conn, args, step, other>>

NextDecode == call_decode_response

SpecDecode == InitDecode /\ [][NextDecode]_vars

\* the code points of the characters the bytes of DecodeBytes can encode
DecodePoints == {65, 233, 10857}

\* the byte strings that are the UTF-8 encoding of a text, with that text
Encodings ==
    {<<Utf8Encode(t), t>> : t \in SeqsUpTo(DecodePoints, MaxBytes)}

Decoded == op = "_decode_response" /\ calls = 1

\* C34: _decode_response never fails: it returns, for every byte sequence;
\* bytes that are the UTF-8 encoding of a text give the characters of that
\* text; any other byte sequence gives one character per input byte, the
\* ASCII character for a byte below 128 and "?" for a byte of 128 and above;
\* a response that is text is returned unchanged.
C34_DecodeNeverFails ==
    Decoded =>
        LET r == args.response
            out == outcome.value
        IN  /\ outcome.kind = "return"
            /\ r.type = "str" => out = r.v
            /\ r.type = "bytes" =>
                IF \E e \in Encodings : e[1] = r.v
                THEN \E e \in Encodings :
                        /\ e[1] = r.v
                        /\ out = [i \in 1..Len(e[2]) |-> Char(e[2][i])]
                ELSE /\ Len(out) = Len(r.v)
                     /\ \A i \in 1..Len(out) :
                            out[i] = IF r.v[i] < 128 THEN Chr(r.v[i]) ELSE "?"

\* the bytes A, 0xFF and a two-byte lead with nothing after it have been
\* decoded to "A??"
C34_Witness ==
    /\ Decoded
    /\ args.response = [type |-> "bytes", v |-> <<65, BadByte, 195>>]
    /\ outcome = Ret(<<"A", "?", "?">>)

\* the two-byte and the three-byte character have been decoded as such
C34_Decodes ==
    /\ Decoded
    /\ args.response.type = "bytes" /\ Len(args.response.v) = 3
    /\ Len(outcome.value) < 3

(***************************************************************************)
(* SIM800Utils: the static helpers of utils.py, which work on the same     *)
(* transport.                                                              *)
(***************************************************************************)
\* bytes the modem sends unasked, before any command
Unsolicited ==
    { <<>>,
      <<Stale(Tag(Encode(<<"\r", "\n">>)))>>,
      <<Stale(Tag(Encode(OK_))), Stale(Tag(Encode(<<"\n">>)))>> }

InitUtils ==
    \E r \in 0..MaxRetries, out \in Unsolicited : Constructed(r, out, NoArgs)

\* what the modem may answer to the line SIM800Utils.send_command writes
UtilsReplies ==
    { <<>>,
      <<Encode(OK_)>>,
      <<Encode(<<"O">>), Encode(<<"K", "\r", "\n">>)>>,
      <<Encode(ERROR_)>>,
      <<<<BadByte>> \o Encode(OK_)>> }

\* SIM800Utils.send_command(uart, command), wait_for and timeout at their
\* defaults
utils_send_command ==
    /\ pc = "idle" /\ calls = 0
    /\ op' = "SIM800Utils.send_command"
    /\ command' = UserCommand
    /\ timeout' = Ticks(2000)
    /\ args' = [wait_for |-> OK_]
    /\ calls' = 1
    /\ pc' = "utils_drain"
    /\ UNCHANGED <<stage, self_retries, check_error, require_response, elapsed,
                   response, res, attempt, retries, last_exception, outcome,
                   rx, modemOut, wlog, nSend, nRaise, nDelay, nDrain>>
    /\ UNCHANGED <<sock, conn, step, other>>

\* clear_uart_buffer: uart.any() is true, uart.read()
clear_uart_buffer_read ==
    /\ pc = "utils_drain"
    /\ uart_any(rx) # 0
    /\ rx' = <<>>
    /\ UNCHANGED <<pc, op, stage, self_retries, command, timeout, check_error,
                   require_response, elapsed, response, res, attempt, retries,
                   last_exception, outcome, calls, modemOut, wlog, nSend,
                   nRaise, nDelay, nDrain>>
    /\ UNCHANGED <<sock, conn, args, step, other>>

\* clear_uart_buffer: uart.any() is false, the loop ends
clear_uart_buffer_return ==
    /\ pc = "utils_drain"
    /\ uart_any(rx) = 0
    /\ pc' = "utils_write"
    /\ UNCHANGED <<op, stage, self_retries, command, timeout, check_error,
                   require_response, elapsed, response, res, attempt, retries,
                   last_exception, outcome, calls, rx, modemOut, wlog, nSend,
                   nRaise, nDelay, nDrain>>
    /\ UNCHANGED <<sock, conn, args, step, other>>

\* uart.write(command + '\r'), then wait_for_response takes start_time and
\* starts from response = b''
utils_uart_write ==
    /\ pc = "utils_write"
    /\ wlog' = Append(wlog, Line(command))
    /\ \E rep \in UtilsReplies :
          modemOut' = StaleAll(modemOut) \o TagAll(rep)
    /\ rx' = Stale(rx)
    /\ elapsed' = 0
    /\ response' = <<>>
    /\ pc' = "utils_wait"
    /\ UNCHANGED <<op, stage, self_retries, command, timeout, check_error,
                   require_response, res, attempt, retries, last_exception,
                   outcome, calls, nSend, nRaise, nDelay, nDrain>>
    /\ UNCHANGED <<sock, conn, args, step, other>>

\* response.decode('utf-8'): the text, or a UnicodeError
bytes_decode(bytes) ==
    IF ValidUtf8(bytes)
    THEN Ret(utf8_decode(bytes))
    ELSE Exc("UnicodeError", "", <<>>)

\* wait_for_response, lines 18-21: bytes are pending, they are appended, and
\* the response is returned decoded once it holds the expected token
wait_for_response_poll ==
    /\ pc = "utils_wait"
    /\ window_open(elapsed, timeout)
    /\ uart_any(rx) # 0
    /\ response' = response \o rx
    /\ rx' = <<>>
    /\ IF Contains(Raw(response'), Encode(args.wait_for))
       THEN /\ outcome' = bytes_decode(Raw(response'))
            /\ pc' = "idle"
       ELSE UNCHANGED <<outcome, pc>>
    /\ UNCHANGED <<op, stage, self_retries, command, timeout, check_error,
                   require_response, elapsed, res, attempt, retries,
                   last_exception, calls, modemOut, wlog, nSend, nRaise,
                   nDelay, nDrain>>
    /\ UNCHANGED <<sock, conn, args, step, other>>

\* wait_for_response, line 22: utime.sleep_ms(100)
wait_for_response_sleep ==
    /\ pc = "utils_wait"
    /\ window_open(elapsed, timeout)
    /\ elapsed' = elapsed + 1
    /\ UNCHANGED <<pc, op, stage, self_retries, command, timeout, check_error,
                   require_response, response, res, attempt, retries,
                   last_exception, outcome, calls, rx, modemOut, wlog, nSend,
                   nRaise, nDelay, nDrain>>
    /\ UNCHANGED <<sock, conn, args, step, other>>

\* wait_for_response, line 24: the loop condition fails, return None
wait_for_response_timeout ==
    /\ pc = "utils_wait"
    /\ ~window_open(elapsed, timeout)
    /\ outcome' = Ret(None)
    /\ pc' = "idle"
    /\ UNCHANGED <<op, stage, self_retries, command, timeout, check_error,
                   require_response, elapsed, response, res, attempt, retries,
                   last_exception, calls, rx, modemOut, wlog, nSend, nRaise,
                   nDelay, nDrain>>
    /\ UNCHANGED <<sock, conn, args, step, other>>

NextUtils ==
    \/ utils_send_command
    \/ clear_uart_buffer_read
    \/ clear_uart_buffer_return
    \/ utils_uart_write
    \/ wait_for_response_poll
    \/ wait_for_response_sleep
    \/ wait_for_response_timeout
    \/ Emit

SpecUtils == InitUtils /\ [][NextUtils]_vars

UtilsDone == op = "SIM800Utils.send_command" /\ pc = "idle"

\* C31: SIM800Utils.send_command drains the receive buffer before it writes:
\* the only write is the command plus carriage return, made after the drain
\* loop has found the buffer empty; the call then returns the decoded
\* accumulated response as soon as that response contains the expected token
\* (the wait never goes on with the token in the response, and a call that
\* ends with the token in the response returns its text), and returns None
\* when the token has not appeared by the time the timeout has elapsed.
C31_UtilsSendCommand ==
    /\ [][/\ pc' = "utils_write" /\ pc # "utils_write"
                => pc = "utils_drain" /\ rx = <<>>
          /\ wlog' # wlog
                => pc = "utils_write" /\ wlog' = Append(wlog, Line(command))]_vars
    /\ [](pc = "utils_wait" => ~Contains(Raw(response), Encode(OK_)))
    /\ [](UtilsDone =>
            IF Contains(Raw(response), Encode(OK_))
            THEN /\ outcome.kind = "return"
                 /\ ValidUtf8(Raw(response))
                 /\ outcome.value = utf8_decode(Raw(response))
            ELSE /\ outcome = Ret(None)
                 /\ elapsed >= timeout)

\* the call has ended in a UnicodeError: 0xFF came in ahead of the OK
C31_Raises ==
    /\ UtilsDone
    /\ Raw(response) = <<BadByte>> \o Encode(OK_)
    /\ outcome.kind = "UnicodeError"

(***************************************************************************)
(* The drain loops, of the engine and of SIM800Utils, with a modem that    *)
(* may go on sending while they run.                                       *)
(***************************************************************************)
Draining == pc \in {"drain", "utils_drain"}

\* the modem sends a byte unasked while a drain loop runs
modem_keeps_sending ==
    /\ Draining
    /\ rx = <<>>
    /\ rx' = Stale(Tag(Encode(<<"\n">>)))
    /\ UNCHANGED <<modemOut, other>>
    /\ UNCHANGED engine

NextDrain ==
    \/ NextApn
    \/ utils_send_command
    \/ clear_uart_buffer_read
    \/ clear_uart_buffer_return
    \/ utils_uart_write
    \/ wait_for_response_poll
    \/ wait_for_response_sleep
    \/ wait_for_response_timeout
    \/ modem_keeps_sending

\* a drain loop that has started keeps running: neither uart.any() nor
\* uart.read() blocks
SpecDrain ==
    /\ InitUtils
    /\ [][NextDrain]_vars
    /\ WF_vars(_clear_uart_buffer_read)
    /\ WF_vars(_clear_uart_buffer_return)
    /\ WF_vars(clear_uart_buffer_read)
    /\ WF_vars(clear_uart_buffer_return)

\* C32: while a drain loop (_clear_uart_buffer or clear_uart_buffer) runs,
\* every pass that finds bytes pending makes one read and stays in the loop,
\* a pass that finds none makes no read and is the one that returns, so the
\* loop returns only with no bytes pending; and a drain that has started
\* ends, unless the modem goes on sending for ever.
C32_DrainTerminates ==
    /\ [][Draining =>
            /\ pc' # pc => rx = <<>> /\ rx' = <<>>
            /\ rx # <<>> /\ Len(rx') <= Len(rx) /\ modemOut' = modemOut
                  => rx' = <<>> /\ pc' = pc]_vars
    /\ \/ []<><<modem_keeps_sending>>_vars
       \/ Draining ~> ~Draining

\* the drain of SIM800Utils.send_command has read the first burst the modem
\* sent unasked, the second is still to come
C32_Witness ==
    /\ pc = "utils_drain"
    /\ rx = <<>>
    /\ modemOut = <<Stale(Tag(Encode(<<"\n">>)))>>

\* a drain that has started ends, whatever the modem does
C32_DrainAlwaysTerminates == Draining ~> ~Draining

(***************************************************************************)
(* Two callers on one engine: a second thread calls send_command while     *)
(* the first caller's call may be anywhere.  Both run lines 39-59 of       *)
(* core.py on the same uart; each has its own locals.                      *)
(***************************************************************************)
\* the command the second caller passes
OtherCommand == "AT+CREG?"

\* the first caller: sim.send_command(c, check_error=ce), once
caller_send_command ==
    /\ pc = "idle" /\ calls = 0
    /\ calls' = calls + 1
    /\ op' = "send_command"
    /\ require_response' = "absent"
    /\ nSend' = 1 /\ nRaise' = 0 /\ nDelay' = 0 /\ nDrain' = 0
    /\ attempt' = 0 /\ retries' = 0
    /\ res' = NoResult /\ last_exception' = NoResult /\ outcome' = NoResult
    /\ \E ce \in BOOLEAN : Call(UserCommand, WindowTicks, ce)
    /\ UNCHANGED <<stage, self_retries, elapsed, response, rx, modemOut, wlog>>
    /\ UNCHANGED <<sock, conn, args, step, other>>

\* the second caller: sim.send_command(c), once
other_send_command ==
    /\ other.pc = "idle" /\ other.calls = 0
    /\ other' = [pc |-> "write", calls |-> 1, command |-> OtherCommand,
                 timeout |-> WindowTicks, elapsed |-> 0, response |-> <<>>,
                 res |-> NoResult]
    /\ UNCHANGED <<rx, modemOut>>
    /\ UNCHANGED <<pc, op, stage, self_retries, command, timeout, check_error,
                   require_response, elapsed, response, res, attempt, retries,
                   last_exception, outcome, calls, wlog, nSend, nRaise, nDelay,
                   nDrain, sock, conn, args, step>>

\* a second caller that waits until the first caller's call is over
other_uart_write_locked ==
    /\ other.pc = "write"
    /\ pc \notin {"write", "read"}
    /\ wlog' = Append(wlog, Line(other.command))
    /\ \E rep \in Answers : modemOut' = modemOut \o StaleAll(TagAll(rep))
    /\ other' = [other EXCEPT !.pc = "read", !.elapsed = 0, !.response = <<>>]
    /\ UNCHANGED <<rx>>
    /\ UNCHANGED <<pc, op, stage, self_retries, command, timeout, check_error,
                   require_response, elapsed, response, res, attempt, retries,
                   last_exception, outcome, calls, nSend, nRaise, nDelay,
                   nDrain, sock, conn, args, step>>

\* the second caller's self.uart.write(command + '\r') and the start of its
\* read_response: nothing makes it wait for the first caller; the modem's
\* answer follows what it has still to send, and is no answer to the first
\* caller's command
other_uart_write ==
    /\ other.pc = "write"
    /\ wlog' = Append(wlog, Line(other.command))
    /\ \E rep \in Answers : modemOut' = modemOut \o StaleAll(TagAll(rep))
    /\ other' = [other EXCEPT !.pc = "read", !.elapsed = 0, !.response = <<>>]
    /\ UNCHANGED <<rx>>
    /\ UNCHANGED <<pc, op, stage, self_retries, command, timeout, check_error,
                   require_response, elapsed, response, res, attempt, retries,
                   last_exception, outcome, calls, nSend, nRaise, nDelay,
                   nDrain, sock, conn, args, step>>

\* the second caller's polling loop takes whatever the receive buffer holds
other_read_response_poll ==
    /\ other.pc = "read"
    /\ window_open(other.elapsed, other.timeout)
    /\ uart_any(rx) # 0
    /\ other' = [other EXCEPT !.response = @ \o rx]
    /\ rx' = <<>>
    /\ UNCHANGED <<modemOut>>
    /\ UNCHANGED <<pc, op, stage, self_retries, command, timeout, check_error,
                   require_response, elapsed, response, res, attempt, retries,
                   last_exception, outcome, calls, wlog, nSend, nRaise, nDelay,
                   nDrain, sock, conn, args, step>>

\* the second caller's loop condition fails: its send_command classifies what
\* it has read and returns or raises
other_send_command_return ==
    /\ other.pc = "read"
    /\ ~window_open(other.elapsed, other.timeout)
    /\ other' = [other EXCEPT
                    !.res = send_command_result(other.command, TRUE,
                                                other.response),
                    !.pc = "idle"]
    /\ UNCHANGED <<rx, modemOut>>
    /\ UNCHANGED <<pc, op, stage, self_retries, command, timeout, check_error,
                   require_response, elapsed, response, res, attempt, retries,
                   last_exception, outcome, calls, wlog, nSend, nRaise, nDelay,
                   nDrain, sock, conn, args, step>>

\* the one clock both callers read advances
shared_clock_tick ==
    /\ \/ pc = "read" /\ elapsed < timeout
       \/ other.pc = "read" /\ other.elapsed < other.timeout
    /\ elapsed' = IF pc = "read" /\ elapsed < timeout
                  THEN elapsed + 1 ELSE elapsed
    /\ other' = [other EXCEPT
                    !.elapsed = IF other.pc = "read" /\ @ < other.timeout
                                THEN @ + 1 ELSE @]
    /\ UNCHANGED <<rx, modemOut>>
    /\ UNCHANGED <<pc, op, stage, self_retries, command, timeout, check_error,
                   require_response, response, res, attempt, retries,
                   last_exception, outcome, calls, wlog, nSend, nRaise, nDelay,
                   nDrain, sock, conn, args, step>>

NextTwo ==
    \/ caller_send_command
    \/ uart_write
    \/ read_response_poll
    \/ send_command_return
    \/ send_command_done
    \/ other_send_command
    \/ other_uart_write
    \/ other_read_response_poll
    \/ other_send_command_return
    \/ shared_clock_tick
    \/ Emit

SpecTwo == Init /\ [][NextTwo]_vars

\* some byte of the bytes answers the first caller's command
OfFirst(tagged) == \E i \in 1..Len(tagged) : tagged[i].own

\* some byte of the bytes answers no command of the first caller
NotOfFirst(tagged) == \E i \in 1..Len(tagged) : ~tagged[i].own

\* C38: the engine holds no lock around a command's write and read window:
\* a caller that has reached its write can make it whatever the state of the
\* other caller's call, also while the other caller's read window is open,
\* and a caller whose window is open can take the bytes in the receive
\* buffer whichever command they answer; what a caller has taken is what it
\* returns.
C38_NoLock ==
    /\ other.pc = "write" => ENABLED other_uart_write
    /\ pc = "write" => ENABLED uart_write
    /\ other.pc = "read" /\ other.elapsed < other.timeout /\ rx # <<>>
          => ENABLED other_read_response_poll
    /\ pc = "read" /\ elapsed < timeout /\ rx # <<>>
          => ENABLED read_response_poll
    /\ other.pc = "idle" /\ other.res.kind = "return"
          => other.res.value = other.response

\* both calls have returned, each with bytes of the reply to the other's
\* command: the second caller wrote while the first caller's window was open
\* and the first caller wrote before the second caller's window closed
C38_Witness ==
    /\ pc = "idle" /\ op = "send_command"
    /\ other.pc = "idle" /\ other.calls = 1
    /\ wlog = InitLog \o <<Line(other.command), Line(command)>>
    /\ outcome.kind = "return" /\ NotOfFirst(outcome.value)
    /\ other.res.kind = "return" /\ OfFirst(other.res.value)

=============================================================================
